---------------------------- MODULE Spec2Model ----------------------------
(***************************************************************************)
(* The storage-indexing core of NachOS: the linked-block file header       *)
(* (src/unnamed/part_000), the table-based file header (NachOS-4.0_MP4     *)
(* filehdr.cc) and the indirection tree (NachOS-4.0_MP4 fileblock.cc), all *)
(* allocating from one free-sector bitmap and one disk.                    *)
(*                                                                         *)
(* Arrays keep the source's 0-based indices: an int array of length n is a *)
(* function on 0 .. n-1.  Every action is one whole call of the operation  *)
(* it is named after.  A failed ASSERT halts the machine (NachOS Abort):   *)
(* the action records it in "aborted" and nothing runs after it.           *)
(***************************************************************************)
EXTENDS Integers, Sequences, FiniteSets, TLC

(***************************************************************************)
(* Sizes.  The machine's sector holds SectorSize / sizeof(int) sector      *)
(* addresses (32 on the real disk); the model runs on a small sector.      *)
(***************************************************************************)
SectorWords == 4

SizeOfInt == 4

SectorSize == SectorWords * SizeOfInt

MAX_BLOCKS == SectorSize \div SizeOfInt

MaxBlocks == SectorSize \div SizeOfInt

EMPTY_BLOCK == -1

EmptyBlock == EMPTY_BLOCK

\* Sectors of the disk: room for a triple-indirect tree of
\* MAX_BLOCKS^2 + 1 leaves, its index blocks, and a few sectors more.
NumSectors == MAX_BLOCKS * MAX_BLOCKS + 2 * MAX_BLOCKS + 4

Sectors == 0 .. NumSectors - 1

\* part_000 lays the header out as numBytes, numSectors, nextBlock and then
\* the direct slots (data[3 .. MaxBlocks-1]); a LinkedBlock as nextBlock and
\* then its data slots (data[1 .. MaxBlocks-1]).
NumDirect == MaxBlocks - 3

NumLinkedDataSectors == MaxBlocks - 1

divRoundUp(n, s) == (n + s - 1) \div s

Min(a, b) == IF a < b THEN a ELSE b

(***************************************************************************)
(* The free-sector bitmap, as the set of sectors marked used.              *)
(***************************************************************************)
NumClear(map) == NumSectors - Cardinality(map)

Test(map, which) == which \in map

\* The lowest clear bit, which gets set; EmptyBlock when every bit is set.
FindAndSet(map) ==
    IF map = Sectors
    THEN [bit |-> EmptyBlock, map |-> map]
    ELSE LET b == CHOOSE s \in Sectors \ map : \A t \in Sectors \ map : s <= t
         IN  [bit |-> b, map |-> map \cup {b}]

\* Clear(which) is defined for a bit of the map only.
ClearInContract(which) == which \in Sectors

Clear(map, which) == map \ {which}

(***************************************************************************)
(* The disk: every sector holds MaxBlocks words.                           *)
(***************************************************************************)
Words == 0 .. MaxBlocks - 1

BlankSector == [w \in Words |-> 0]

ReadSector(dsk, sector) == dsk[sector]

WriteSector(dsk, sector, data) == [dsk EXCEPT ![sector] = data]

(***************************************************************************)
(* Linked-block file header (src/unnamed/part_000).                        *)
(* A header is [numBytes, numSectors, nextBlock, dataSectors, chain]:      *)
(* chain is the list of LinkedBlock objects reached through nxtPtr, the    *)
(* empty list when nxtPtr is NULL.  A LinkedBlock is [nextBlock,           *)
(* dataSectors].                                                           *)
(***************************************************************************)
NewLinkedBlock ==
    [nextBlock |-> EmptyBlock,
     dataSectors |-> [i \in 0 .. NumLinkedDataSectors - 1 |-> EmptyBlock]]

NewLinkedHeader ==
    [numBytes |-> -1, numSectors |-> -1, nextBlock |-> EmptyBlock,
     dataSectors |-> [i \in 0 .. NumDirect - 1 |-> EmptyBlock],
     chain |-> << >>]

\* for (i = from; i < limit && alloc < need; i++, alloc++)
\*     dataSectors[i] = FindAndSet();
RECURSIVE FillSlots(_, _, _, _, _, _)
FillSlots(ds, map, i, limit, alloc, need) ==
    IF i < limit /\ alloc < need
    THEN LET r == FindAndSet(map)
         IN  FillSlots([ds EXCEPT ![i] = r.bit], r.map, i + 1, limit,
                       alloc + 1, need)
    ELSE [ds |-> ds, map |-> map, alloc |-> alloc]

\* LinkedBlock::Allocate(bitMap, numSector, sector) on a new block: the list
\* of blocks from this one on, the bitmap, and the failed assertion if any.
RECURSIVE LinkedBlockAllocate(_, _, _)
LinkedBlockAllocate(map, numSector, sector) ==
    IF sector < 0
    THEN [chain |-> << >>, map |-> map, abort |-> "LinkedBlock::Allocate"]
    ELSE IF numSector = 0
    THEN [chain |-> <<NewLinkedBlock>>, map |-> map, abort |-> ""]
    ELSE LET f == FillSlots(NewLinkedBlock.dataSectors, map, 0,
                            NumLinkedDataSectors, 0, numSector)
         IN  IF f.alloc < numSector
             THEN LET n == FindAndSet(f.map)
                      rest == LinkedBlockAllocate(n.map, numSector - f.alloc,
                                                  n.bit)
                  IN  [chain |-> <<[nextBlock |-> n.bit,
                                    dataSectors |-> f.ds]>> \o rest.chain,
                       map |-> rest.map, abort |-> rest.abort]
             ELSE [chain |-> <<[nextBlock |-> EmptyBlock,
                                dataSectors |-> f.ds]>>,
                   map |-> f.map, abort |-> ""]

\* FileHeader::Allocate past its test of NumClear(): the direct slots, then
\* the chain.
LinkedAllocateSectors(h, map, numSectors) ==
    LET f == FillSlots(h.dataSectors, map, 0, NumDirect, 0, numSectors)
        h2 == [h EXCEPT !.dataSectors = f.ds]
    IN  IF f.alloc < numSectors
        THEN LET n == FindAndSet(f.map)
                 c == LinkedBlockAllocate(n.map, numSectors, n.bit)
             IN  [hdr |-> [h2 EXCEPT !.nextBlock = n.bit, !.chain = c.chain],
                  map |-> c.map, ret |-> TRUE, abort |-> c.abort]
        ELSE [hdr |-> h2, map |-> f.map, ret |-> TRUE, abort |-> ""]

\* Mutant: Allocate without its test of NumClear().
LinkedAllocateUnchecked(h, map, fileSize) ==
    LinkedAllocateSectors(
        [h EXCEPT !.numBytes = fileSize,
                  !.numSectors = divRoundUp(fileSize, SectorSize)],
        map, divRoundUp(fileSize, SectorSize))

\* FileHeader::Allocate(freeMap, fileSize) on header h.
LinkedAllocate(h, map, fileSize) ==
    LET numSectors == divRoundUp(fileSize, SectorSize)
        h1 == [h EXCEPT !.numBytes = fileSize, !.numSectors = numSectors]
    IN  IF NumClear(map) < numSectors
        THEN [hdr |-> h1, map |-> map, ret |-> FALSE, abort |-> ""]
        ELSE LinkedAllocateSectors(h1, map, numSectors)

\* for (i = from; i < limit [&& dataSectors[i] >= 0]; i++) Clear(dataSectors[i]);
\* "calls" lists the arguments handed to Clear, in order.
RECURSIVE ClearSlots(_, _, _, _, _, _)
ClearSlots(ds, map, i, limit, stopAtEmpty, calls) ==
    IF i < limit /\ (stopAtEmpty => ds[i] >= 0)
    THEN ClearSlots(ds, Clear(map, ds[i]), i + 1, limit, stopAtEmpty,
                    Append(calls, ds[i]))
    ELSE [map |-> map, calls |-> calls]

\* LinkedBlock::Deallocate(bitMap, sector) on the first block of chain.
RECURSIVE LinkedBlockDeallocate(_, _, _, _)
LinkedBlockDeallocate(chain, map, sector, calls) ==
    IF sector < 0
    THEN [map |-> map, calls |-> calls, abort |-> "LinkedBlock::Deallocate"]
    ELSE LET b == chain[1]
             c == ClearSlots(b.dataSectors, map, 0, NumLinkedDataSectors,
                             TRUE, calls)
             m == Clear(c.map, sector)
             k == Append(c.calls, sector)
         IN  IF b.nextBlock >= 0
             THEN IF Len(chain) < 2
                  THEN [map |-> m, calls |-> k,
                        abort |-> "LinkedBlock::Deallocate"]
                  ELSE LinkedBlockDeallocate(Tail(chain), m, b.nextBlock, k)
             ELSE [map |-> m, calls |-> k, abort |-> ""]

\* Mutant: Deallocate clears the sectors of every file.
LinkedDeallocateAll(h, map) ==
    [map |-> {s \in map : \A t \in Sectors : s <= t},
     calls |-> << >>, abort |-> ""]

\* FileHeader::Deallocate(freeMap).
LinkedDeallocate(h, map) ==
    LET c == ClearSlots(h.dataSectors, map, 0, NumDirect, FALSE, << >>)
    IN  IF h.nextBlock >= 0
        THEN IF h.chain = << >>
             THEN [map |-> c.map, calls |-> c.calls,
                   abort |-> "FileHeader::Deallocate"]
             ELSE LinkedBlockDeallocate(h.chain, c.map, h.nextBlock, c.calls)
        ELSE [map |-> c.map, calls |-> c.calls, abort |-> ""]


\* Mutant: the block written without its last slot (i < MaxBlocks - 1).
LinkedBlockImageShort(b) ==
    [w \in Words |-> IF w = 0 THEN b.nextBlock
                     ELSE IF w < MaxBlocks - 1 THEN b.dataSectors[w - 1]
                     ELSE EmptyBlock]

\* The sector image LinkedBlock::WriteBack builds from a block.
LinkedBlockImage(b) ==
    [w \in Words |-> IF w = 0 THEN b.nextBlock ELSE b.dataSectors[w - 1]]

\* LinkedBlock::WriteBack(sectorNumber) on the first block of chain
\* (chain is empty when the caller's nxtPtr is NULL: nothing is called).
RECURSIVE LinkedBlockWriteBack(_, _, _)
LinkedBlockWriteBack(chain, dsk, sectorNumber) ==
    LET b == chain[1]
        d == WriteSector(dsk, sectorNumber, LinkedBlockImage(b))
    IN  IF b.nextBlock >= 0 /\ Len(chain) >= 2
        THEN LinkedBlockWriteBack(Tail(chain), d, b.nextBlock)
        ELSE d

\* The sector image FileHeader::WriteBack builds from a header.
LinkedHeaderImage(h) ==
    [w \in Words |-> IF w = 0 THEN h.numBytes
                     ELSE IF w = 1 THEN h.numSectors
                     ELSE IF w = 2 THEN h.nextBlock
                     ELSE h.dataSectors[w - 3]]

\* FileHeader::WriteBack(sector).
LinkedWriteBack(h, dsk, sector) ==
    LET d == WriteSector(dsk, sector, LinkedHeaderImage(h))
    IN  IF h.nextBlock >= 0
        THEN IF h.chain = << >>
             THEN [disk |-> d, abort |-> "FileHeader::WriteBack"]
             ELSE [disk |-> LinkedBlockWriteBack(h.chain, d, h.nextBlock),
                   abort |-> ""]
        ELSE [disk |-> d, abort |-> ""]

\* LinkedBlock::FetchFrom(sectorNumber) on a new block: the list of blocks
\* from this one on.
RECURSIVE LinkedBlockFetchFrom(_, _)
LinkedBlockFetchFrom(dsk, sectorNumber) ==
    IF sectorNumber < 0
    THEN [chain |-> << >>, abort |-> "LinkedBlock::FetchFrom"]
    ELSE LET data == ReadSector(dsk, sectorNumber)
             b == [nextBlock |-> data[0],
                   dataSectors |-> [i \in 0 .. NumLinkedDataSectors - 1 |->
                                        data[i + 1]]]
         IN  IF b.nextBlock >= 0
             THEN LET rest == LinkedBlockFetchFrom(dsk, b.nextBlock)
                  IN  [chain |-> <<b>> \o rest.chain, abort |-> rest.abort]
             ELSE [chain |-> <<b>>, abort |-> ""]

\* FileHeader::FetchFrom(sector) on header h.
LinkedFetchFrom(h, dsk, sector) ==
    LET data == ReadSector(dsk, sector)
        h1 == [h EXCEPT !.numBytes = data[0], !.numSectors = data[1],
                        !.nextBlock = data[2],
                        !.dataSectors = [i \in 0 .. NumDirect - 1 |->
                                             data[i + 3]]]
    IN  IF h1.nextBlock >= 0
        THEN LET c == LinkedBlockFetchFrom(dsk, h1.nextBlock)
             IN  [hdr |-> [h1 EXCEPT !.chain = c.chain], abort |-> c.abort]
        ELSE [hdr |-> h1, abort |-> ""]

\* LinkedBlock::ByteToSector(vBlock) on the first block of chain.
RECURSIVE LinkedBlockByteToSector(_, _)
LinkedBlockByteToSector(chain, vBlock) ==
    IF vBlock < NumLinkedDataSectors
    THEN [ret |-> chain[1].dataSectors[vBlock], abort |-> ""]
    ELSE IF Len(chain) < 2
    THEN [ret |-> EmptyBlock, abort |-> "LinkedBlock::ByteToSector"]
    ELSE LinkedBlockByteToSector(Tail(chain), vBlock - NumLinkedDataSectors)

\* FileHeader::ByteToSector(offset).
LinkedByteToSector(h, offset) ==
    LET vBlock == offset \div SectorSize
    IN  IF vBlock < NumDirect
        THEN [ret |-> h.dataSectors[vBlock], abort |-> ""]
        ELSE IF h.chain = << >>
        THEN [ret |-> EmptyBlock, abort |-> "FileHeader::ByteToSector"]
        ELSE LinkedBlockByteToSector(h.chain, vBlock - NumDirect)

\* FileHeader::FileLength().
FileLength(h) == h.numBytes

(***************************************************************************)
(* Indirection tree (NachOS-4.0_MP4 fileblock.cc).  A block of level 1, 2  *)
(* or 3 (Single, Doubly, TripleIndirectBlock) is its dataSectors array.    *)
(***************************************************************************)
Slots == 0 .. MAX_BLOCKS - 1

\* IndirectBlock::IndirectBlock().
NewIndirectBlock == [i \in Slots |-> EMPTY_BLOCK]

\* The words of a pointer: the classes have virtual functions, so an object
\* starts with its vtable pointer, one word in NachOS's 32-bit build.
PtrWords == 1

\* The vtable pointer of a block of the given level, as a word.
VPtr(level) == 0 - (1000 + level)

\* The first SectorSize bytes at "this", which WriteSector(sector,
\* (char *)this) copies to the disk: the vtable pointer, then as many slots
\* as still fit.
ObjectImage(level, ds) ==
    [w \in Words |-> IF w < PtrWords THEN VPtr(level) ELSE ds[w - PtrWords]]

\* IndirectBlock::WriteBack(sector): the disk afterwards.
IndirectWriteBack(level, ds, dsk, sector) ==
    WriteSector(dsk, sector, ObjectImage(level, ds))

\* IndirectBlock::FetchFrom(sector): it calls WriteSector, so the block
\* keeps its slots and the disk takes the block's image.
IndirectFetchFrom(level, ds, dsk, sector) ==
    [ds |-> ds, disk |-> WriteSector(dsk, sector, ObjectImage(level, ds))]

\* The loop of SingleIndirectBlock::Allocate from slot i on.
RECURSIVE SingleAllocLoop(_, _, _, _, _)
SingleAllocLoop(ds, map, i, allocated, numSectors) ==
    IF i < MAX_BLOCKS /\ allocated < numSectors
    THEN IF ds[i] # EMPTY_BLOCK
         THEN SingleAllocLoop(ds, map, i + 1, allocated, numSectors)
         ELSE LET r == FindAndSet(map)
              IN  IF r.bit = EMPTY_BLOCK
                  THEN [ret |-> allocated, ds |-> ds, map |-> r.map,
                        abort |-> "SingleIndirectBlock::Allocate"]
                  ELSE SingleAllocLoop([ds EXCEPT ![i] = r.bit], r.map, i + 1,
                                       allocated + 1, numSectors)
    ELSE [ret |-> allocated, ds |-> ds, map |-> map, abort |-> ""]

\* Mutant: the loop stops one slot early (i < MAX_BLOCKS - 1).
SingleAllocateShort(ds, map, numSectors) ==
    IF numSectors < 0 \/ NumClear(map) < numSectors
    THEN [ret |-> -1, ds |-> ds, map |-> map, abort |-> ""]
    ELSE SingleAllocLoop(ds, map, 0, 0, Min(numSectors, MAX_BLOCKS - 1))

\* SingleIndirectBlock::Allocate(freeMap, numSectors).
SingleAllocate(ds, map, numSectors) ==
    IF numSectors < 0 \/ NumClear(map) < numSectors
    THEN [ret |-> -1, ds |-> ds, map |-> map, abort |-> ""]
    ELSE SingleAllocLoop(ds, map, 0, 0, numSectors)

\* DoublyIndirectBlock::Allocate (level 2) and TripleIndirectBlock::Allocate
\* (level 3) are the same text over a child one level down.  The result
\* carries the disk, and "log": one entry per child, in the order the
\* children were written back, with what the child's Allocate returned.
RECURSIVE IndirectAllocate(_, _, _, _, _)
RECURSIVE IndirectAllocLoop(_, _, _, _)
IndirectAllocLoop(level, st, i, numSectors) ==
    IF i < MAX_BLOCKS /\ st.ret < numSectors
    THEN LET empty == st.ds[i] = EMPTY_BLOCK
             r == FindAndSet(st.map)
             ds1 == IF empty THEN [st.ds EXCEPT ![i] = r.bit] ELSE st.ds
             map1 == IF empty THEN r.map ELSE st.map
             f == IF empty
                  THEN [ds |-> NewIndirectBlock, disk |-> st.disk]
                  ELSE IndirectFetchFrom(level - 1, NewIndirectBlock, st.disk,
                                         st.ds[i])
         IN  IF ds1[i] = EMPTY_BLOCK
             THEN [st EXCEPT !.ds = ds1, !.map = map1,
                             !.abort = "IndirectBlock::Allocate slot"]
             ELSE LET c == IF level = 2
                           THEN SingleAllocate(f.ds, map1,
                                               numSectors - st.ret)
                                    @@ [disk |-> f.disk, log |-> << >>]
                           ELSE IndirectAllocate(level - 1, f.ds, map1, f.disk,
                                                 numSectors - st.ret)
                  IN  IF c.abort # ""
                      THEN [st EXCEPT !.ds = ds1, !.map = c.map,
                                      !.disk = c.disk, !.abort = c.abort]
                      ELSE IF c.ret < 0
                      THEN [st EXCEPT !.ds = ds1, !.map = c.map,
                                      !.disk = c.disk,
                                      !.abort = "IndirectBlock::Allocate result"]
                      ELSE IndirectAllocLoop(level,
                               [ret |-> st.ret + c.ret, ds |-> ds1,
                                map |-> c.map,
                                disk |-> IndirectWriteBack(level - 1, c.ds,
                                                           c.disk, ds1[i]),
                                abort |-> "",
                                log |-> st.log \o c.log \o
                                        <<[level |-> level - 1, slot |-> i,
                                           sector |-> ds1[i],
                                           result |-> c.ret]>>],
                               i + 1, numSectors)
    ELSE st

IndirectAllocate(level, ds, map, dsk, numSectors) ==
    IF numSectors < 0 \/ NumClear(map) < numSectors
    THEN [ret |-> -1, ds |-> ds, map |-> map, disk |-> dsk, abort |-> "",
          log |-> << >>]
    ELSE IndirectAllocLoop(level,
             [ret |-> 0, ds |-> ds, map |-> map, disk |-> dsk, abort |-> "",
              log |-> << >>], 0, numSectors)

\* SingleIndirectBlock::Deallocate(freeMap) from slot i on.
RECURSIVE SingleDeallocLoop(_, _, _, _)
SingleDeallocLoop(ds, map, i, calls) ==
    IF i < MAX_BLOCKS
    THEN IF ds[i] = EMPTY_BLOCK
         THEN SingleDeallocLoop(ds, map, i + 1, calls)
         ELSE IF ~Test(map, ds[i])
         THEN [map |-> map, calls |-> calls,
               abort |-> "SingleIndirectBlock::Deallocate"]
         ELSE SingleDeallocLoop(ds, Clear(map, ds[i]), i + 1,
                                Append(calls, ds[i]))
    ELSE [map |-> map, calls |-> calls, abort |-> ""]

SingleDeallocate(ds, map) == SingleDeallocLoop(ds, map, 0, << >>)

\* DoublyIndirectBlock::Deallocate (level 2) and
\* TripleIndirectBlock::Deallocate (level 3).
RECURSIVE IndirectDeallocate(_, _, _, _)
RECURSIVE IndirectDeallocLoop(_, _, _, _)
IndirectDeallocLoop(level, ds, st, i) ==
    IF i < MAX_BLOCKS
    THEN IF ds[i] = EMPTY_BLOCK
         THEN IndirectDeallocLoop(level, ds, st, i + 1)
         ELSE IF ~Test(st.map, ds[i])
         THEN [st EXCEPT !.abort = "IndirectBlock::Deallocate"]
         ELSE LET f == IndirectFetchFrom(level - 1, NewIndirectBlock, st.disk,
                                         ds[i])
                  c == IF level = 2
                       THEN SingleDeallocate(f.ds, st.map) @@ [disk |-> f.disk]
                       ELSE IndirectDeallocate(level - 1, f.ds, st.map, f.disk)
              IN  IF c.abort # ""
                  THEN [map |-> c.map, disk |-> c.disk,
                        calls |-> st.calls \o c.calls, abort |-> c.abort]
                  ELSE IF ~Test(c.map, ds[i])
                  THEN [map |-> c.map, disk |-> c.disk,
                        calls |-> st.calls \o c.calls,
                        abort |-> "IndirectBlock::Deallocate"]
                  ELSE IndirectDeallocLoop(level, ds,
                           [map |-> Clear(c.map, ds[i]), disk |-> c.disk,
                            calls |-> st.calls \o c.calls \o <<ds[i]>>,
                            abort |-> ""], i + 1)
    ELSE st

IndirectDeallocate(level, ds, map, dsk) ==
    IndirectDeallocLoop(level, ds,
        [map |-> map, disk |-> dsk, calls |-> << >>, abort |-> ""], 0)

\* SingleIndirectBlock::ByteToSector(offset).  The result carries the disk,
\* and inRange: whether every subscript lay inside its array.
SingleByteToSector(ds, dsk, offset) ==
    LET vBlock == offset \div SectorSize
    IN  IF ~(vBlock < MAX_BLOCKS)
        THEN [ret |-> EMPTY_BLOCK, disk |-> dsk, inRange |-> TRUE,
              abort |-> "SingleIndirectBlock::ByteToSector vBlock"]
        ELSE IF ~(ds[vBlock] >= 0 /\ ds[vBlock] < NumSectors)
        THEN [ret |-> ds[vBlock], disk |-> dsk, inRange |-> TRUE,
              abort |-> "SingleIndirectBlock::ByteToSector pBlock"]
        ELSE [ret |-> ds[vBlock], disk |-> dsk, inRange |-> TRUE,
              abort |-> ""]

\* DoublyIndirectBlock::ByteToSector (level 2) and
\* TripleIndirectBlock::ByteToSector (level 3): the same text over a child
\* one level down.  dataSectors[vBlock / MAX_BLOCKS] is read without a test
\* of the subscript: outside the array it reads "wild".  The disk refuses a
\* sector number that is not on it.
RECURSIVE IndirectByteToSector(_, _, _, _, _)
IndirectByteToSector(level, ds, dsk, offset, wild) ==
    IF level = 1 THEN SingleByteToSector(ds, dsk, offset)
    ELSE LET vBlock == offset \div SectorSize
             i == vBlock \div MAX_BLOCKS
             sector == IF i \in Slots THEN ds[i] ELSE wild
         IN  IF sector \notin Sectors
             THEN [ret |-> EMPTY_BLOCK, disk |-> dsk, inRange |-> i \in Slots,
                   abort |-> "Disk::WriteRequest"]
             ELSE LET f == IndirectFetchFrom(level - 1, NewIndirectBlock, dsk,
                                             sector)
                      c == IndirectByteToSector(level - 1, f.ds, f.disk,
                               (vBlock % MAX_BLOCKS) * SectorSize, wild)
                  IN  IF c.abort # ""
                      THEN [c EXCEPT !.inRange = c.inRange /\ i \in Slots]
                      ELSE IF ~(c.ret >= 0 /\ c.ret < NumSectors)
                      THEN [c EXCEPT !.inRange = c.inRange /\ i \in Slots,
                                     !.abort = "IndirectBlock::ByteToSector"]
                      ELSE [c EXCEPT !.inRange = c.inRange /\ i \in Slots]

(***************************************************************************)
(* Table-based file header (NachOS-4.0_MP4 filehdr.cc).  A header is       *)
(* [numBytes, numSectors, dataSectors, virDataSectors].  The two arrays    *)
(* are kept as the map from the indices that hold a value other than       *)
(* EmptyBlock to that value (both are memset to EmptyBlock); they are      *)
(* taken to be long enough for every index the loops form, so that only a  *)
(* negative index is outside them.                                         *)
(***************************************************************************)
\* WriteBack stores the root pointers dataSectors[1 .. NumIndirect-1] in
\* data[3 .. NumIndirect+1] of the MaxBlocks words of the header sector.
NumIndirect == MaxBlocks - 2

EmptyArray == [x \in {} |-> EmptyBlock]

Get(a, i) == IF i \in DOMAIN a THEN a[i] ELSE EmptyBlock

Put(a, i, v) ==
    IF v = EmptyBlock
    THEN [x \in DOMAIN a \ {i} |-> a[x]]
    ELSE [x \in DOMAIN a \cup {i} |-> IF x = i THEN v ELSE a[x]]

\* FileHeader::FileHeader().
NewTableHeader ==
    [numBytes |-> -1, numSectors |-> -1, dataSectors |-> EmptyArray,
     virDataSectors |-> EmptyArray]

\* The four nested loops of FileHeader::Allocate: depth 0 is the loop on i
\* (below NumIndirect), depths 1, 2, 3 the loops on j, k, l (below
\* MaxBlocks); the slot of loop variable x under the enclosing index base
\* is base * MaxBlocks + x (idxL0 .. idxL3).  st is [ds, vds, map,
\* allocated, abort].
RECURSIVE TableAllocLoop(_, _, _, _, _)
TableAllocLoop(st, depth, base, x, numSectors) ==
    IF st.abort = "" /\ x < (IF depth = 0 THEN NumIndirect ELSE MaxBlocks)
                     /\ st.allocated < numSectors
    THEN LET idx == base * MaxBlocks + x
             r == FindAndSet(st.map)
             st1 == [st EXCEPT !.ds = Put(st.ds, idx, r.bit), !.map = r.map]
         IN  IF depth = 3
             THEN LET st2 == [st1 EXCEPT
                                 !.allocated = st.allocated + 1,
                                 !.vds = Put(st.vds, st.allocated + 1, idx)]
                  IN  IF r.bit = EmptyBlock
                      THEN [st2 EXCEPT !.abort = "FileHeader::Allocate"]
                      ELSE TableAllocLoop(st2, depth, base, x + 1, numSectors)
             ELSE IF r.bit = EmptyBlock
                  THEN [st1 EXCEPT !.abort = "FileHeader::Allocate"]
                  ELSE TableAllocLoop(
                           TableAllocLoop(st1, depth + 1, idx, 1, numSectors),
                           depth, base, x + 1, numSectors)
    ELSE st

\* FileHeader::Allocate(freeMap, fileSize) on header h.
TableAllocate(h, map, fileSize) ==
    LET numSectors == divRoundUp(fileSize, SectorSize)
        h1 == [h EXCEPT !.numBytes = fileSize, !.numSectors = numSectors]
    IN  IF NumClear(map) < numSectors
        THEN [hdr |-> h1, map |-> map, ret |-> FALSE, abort |-> ""]
        ELSE LET st == TableAllocLoop(
                           [ds |-> h1.dataSectors, vds |-> h1.virDataSectors,
                            map |-> map, allocated |-> 0, abort |-> ""],
                           0, 0, 1, numSectors)
             IN  [hdr |-> [h1 EXCEPT !.dataSectors = st.ds,
                                     !.virDataSectors = st.vds],
                  map |-> st.map, ret |-> TRUE, abort |-> st.abort]

\* The index-block image WriteBack builds: memset to EmptyBlock, then
\* data[x] = dataSectors[base * MaxBlocks + x] for x in 1 .. MaxBlocks-1.
TableIndexImage(ds, base) ==
    [w \in Words |-> IF w = 0 THEN EmptyBlock
                     ELSE Get(ds, base * MaxBlocks + w)]

\* The header image WriteBack builds.
TableHeaderImage(h) ==
    [w \in Words |-> IF w = 0 THEN h.numBytes
                     ELSE IF w = 1 THEN h.numSectors
                     ELSE IF w >= 3 /\ w - 2 < NumIndirect
                     THEN Get(h.dataSectors, w - 2)
                     ELSE EmptyBlock]

\* WriteSector on the disk record st = [disk, abort]; the disk refuses a
\* sector number that is not on it.
TableWrite(st, sector, data) ==
    IF sector \in Sectors
    THEN [st EXCEPT !.disk = WriteSector(st.disk, sector, data)]
    ELSE [st EXCEPT !.abort = "Disk::WriteRequest"]

\* The loop on k of FileHeader::WriteBack: its test and the sector it
\* writes to are read at (i * MaxBlocks + j) + k.
RECURSIVE TableWriteBackK(_, _, _, _, _)
TableWriteBackK(ds, st, i, j, k) ==
    IF st.abort = "" /\ k < MaxBlocks
                     /\ Get(ds, (i * MaxBlocks + j) + k) # EmptyBlock
    THEN TableWriteBackK(ds,
             TableWrite(st, Get(ds, (i * MaxBlocks + j) + k),
                        TableIndexImage(ds, (i * MaxBlocks + j) * MaxBlocks + k)),
             i, j, k + 1)
    ELSE st

\* The loop on j of FileHeader::WriteBack.
RECURSIVE TableWriteBackJ(_, _, _, _)
TableWriteBackJ(ds, st, i, j) ==
    IF st.abort = "" /\ j < MaxBlocks /\ Get(ds, i * MaxBlocks + j) # EmptyBlock
    THEN TableWriteBackJ(ds,
             TableWriteBackK(ds,
                 TableWrite(st, Get(ds, i * MaxBlocks + j),
                            TableIndexImage(ds, i * MaxBlocks + j)),
                 i, j, 1),
             i, j + 1)
    ELSE st

\* The loop on i of FileHeader::WriteBack.
RECURSIVE TableWriteBackI(_, _, _)
TableWriteBackI(ds, st, i) ==
    IF st.abort = "" /\ i < NumIndirect /\ Get(ds, i) # EmptyBlock
    THEN TableWriteBackI(ds,
             TableWriteBackJ(ds, TableWrite(st, Get(ds, i),
                                            TableIndexImage(ds, i)), i, 1),
             i + 1)
    ELSE st

\* FileHeader::WriteBack(sector).
TableWriteBack(h, dsk, sector) ==
    TableWriteBackI(h.dataSectors,
        TableWrite([disk |-> dsk, abort |-> ""], sector, TableHeaderImage(h)),
        1)

\* for (x = 1; x < limit; x++) dataSectors[base + x] = data[x];
RECURSIVE LoadRow(_, _, _, _, _)
LoadRow(ds, data, base, x, limit) ==
    IF x < limit
    THEN LoadRow(Put(ds, base + x, data[x]), data, base, x + 1, limit)
    ELSE ds

\* The innermost loop of FileHeader::FetchFrom, on l: one slot and one
\* virDataSectors entry per word of the sector read.
RECURSIVE TableFetchL(_, _, _, _)
TableFetchL(st, data, base, l) ==
    IF l < MaxBlocks
    THEN TableFetchL([st EXCEPT !.ds = Put(st.ds, base + l, data[l]),
                                !.virIdx = st.virIdx + 1,
                                !.vds = Put(st.vds, st.virIdx + 1, base + l)],
                     data, base, l + 1)
    ELSE st

\* The loop on k of FileHeader::FetchFrom: its slots are read and written
\* at (i * MaxBlocks + j) + k.
RECURSIVE TableFetchK(_, _, _, _, _)
TableFetchK(st, dsk, i, j, k) ==
    IF st.abort = "" /\ k < MaxBlocks
                     /\ Get(st.ds, (i * MaxBlocks + j) + k) # EmptyBlock
    THEN LET sector == Get(st.ds, (i * MaxBlocks + j) + k)
         IN  IF sector \notin Sectors
             THEN [st EXCEPT !.abort = "Disk::ReadRequest"]
             ELSE TableFetchK(
                      TableFetchL(st, ReadSector(dsk, sector),
                                  (i * MaxBlocks + j) + k, 1),
                      dsk, i, j, k + 1)
    ELSE st

\* The loop on j of FileHeader::FetchFrom.
RECURSIVE TableFetchJ(_, _, _, _)
TableFetchJ(st, dsk, i, j) ==
    IF st.abort = "" /\ j < MaxBlocks
                     /\ Get(st.ds, i * MaxBlocks + j) # EmptyBlock
    THEN LET sector == Get(st.ds, i * MaxBlocks + j)
         IN  IF sector \notin Sectors
             THEN [st EXCEPT !.abort = "Disk::ReadRequest"]
             ELSE TableFetchJ(
                      TableFetchK(
                          [st EXCEPT !.ds = LoadRow(st.ds,
                                                ReadSector(dsk, sector),
                                                i * MaxBlocks + j, 1,
                                                MaxBlocks)],
                          dsk, i, j, 1),
                      dsk, i, j + 1)
    ELSE st

\* The loop on i of FileHeader::FetchFrom.
RECURSIVE TableFetchI(_, _, _)
TableFetchI(st, dsk, i) ==
    IF st.abort = "" /\ i < NumIndirect /\ Get(st.ds, i) # EmptyBlock
    THEN LET sector == Get(st.ds, i)
         IN  IF sector \notin Sectors
             THEN [st EXCEPT !.abort = "Disk::ReadRequest"]
             ELSE TableFetchI(
                      TableFetchJ(
                          [st EXCEPT !.ds = LoadRow(st.ds,
                                                ReadSector(dsk, sector),
                                                i * MaxBlocks, 1, MaxBlocks)],
                          dsk, i, 1),
                      dsk, i + 1)
    ELSE st

\* FileHeader::FetchFrom(sector) on header h: both arrays are reset, the
\* root pointers dataSectors[1 .. NumIndirect-1] are taken from
\* data[1 .. NumIndirect-1].
TableFetchFrom(h, dsk, sector) ==
    IF sector \notin Sectors
    THEN [hdr |-> h, abort |-> "Disk::ReadRequest"]
    ELSE LET data == ReadSector(dsk, sector)
             st == TableFetchI(
                       [ds |-> LoadRow(EmptyArray, data, 0, 1, NumIndirect),
                        vds |-> EmptyArray, virIdx |-> 0, abort |-> ""],
                       dsk, 1)
         IN  [hdr |-> [numBytes |-> data[0], numSectors |-> data[1],
                       dataSectors |-> st.ds, virDataSectors |-> st.vds],
              abort |-> st.abort]

\* FileHeader::ByteToSector(offset): dataSectors[virDataSectors[vBlock]].
\* "inRange" tells whether both subscripts lie inside their arrays; "ret"
\* is the value read when they do.
TableByteToSector(h, offset) ==
    LET vBlock == offset \div SectorSize
        idx == Get(h.virDataSectors, vBlock)
    IN  [inRange |-> vBlock >= 0 /\ idx >= 0, idx |-> idx,
         ret |-> Get(h.dataSectors, idx)]

(***************************************************************************)
(* The scheduler (threads/scheduler.cc): three ready queues of threads.    *)
(***************************************************************************)
\* The threads of a run.
Threads == {1, 2, 3}

\* No thread (a NULL pointer).
NULL == 0

\* The priorities a thread can be created with: every thread but the last
\* at the lower limit of a band, the last at the upper limit of a band.
InitPriorities(t) ==
    IF \E u \in Threads : u > t THEN {40, 50, 100} ELSE {49, 99}

\* The burst time a thread is created with: equal for some threads,
\* different for others.
InitBurstTime(t) == 1 + (t % 2)

\* ageUpdate is not called where it would take a priority beyond this.
MaxPriority == 110

\* A Thread as the scheduler sees it, before its first ReadyToRun.
NewThread(priority, burstTime) ==
    [priority |-> priority, burstTime |-> burstTime,
     status |-> "JUST_CREATED"]

NewThreads ==
    {th \in [Threads -> {NewThread(p, b) : p \in {40, 49, 50, 99, 100},
                                           b \in {1, 2}}] :
        \A t \in Threads : /\ th[t].priority \in InitPriorities(t)
                           /\ th[t].burstTime = InitBurstTime(t)}

\* The threads held by the three queues.
Queued(L1, L2, L3) ==
    {L1[i] : i \in 1 .. Len(L1)} \cup {L2[i] : i \in 1 .. Len(L2)}
        \cup {L3[i] : i \in 1 .. Len(L3)}

\* Mutant: a comparison that puts every new thread in front.
CompareFront(th, x, y) == 0 - 1

\* Scheduler::CompareRR, CompareSJF, ComparePriority on threads x and y
\* whose fields are th[x] and th[y].
CompareRR(th, x, y) == 1

CompareSJF(th, x, y) == th[x].burstTime - th[y].burstTime

\* Mutant: priorities compared the other way round.
ComparePriorityUp(th, x, y) == th[x].priority - th[y].priority

ComparePriority(th, x, y) == th[y].priority - th[x].priority

\* SortedList::Insert(item): before the first element that compares
\* greater than item, at the end when there is none; compare[x, y] is the
\* list's comparison of x with y.
Insert(list, item, compare) ==
    LET greater == {i \in 1 .. Len(list) : compare[item, list[i]] < 0}
    IN  IF greater = {} THEN Append(list, item)
        ELSE LET k == CHOOSE i \in greater : \A j \in greater : i <= j
             IN  SubSeq(list, 1, k - 1) \o <<item>>
                     \o SubSeq(list, k, Len(list))

\* Mutant: the L2 limit taken at 50.
BandWide(priority) ==
    IF priority > 99 THEN 1
    ELSE IF priority > 50 THEN 2
    ELSE 3

\* The queue Scheduler::ReadyToRun chooses for a priority.
Band(priority) ==
    IF priority > 99 THEN 1
    ELSE IF priority > 49 THEN 2
    ELSE 3

\* The insertion of ReadyToRun: thread t into the queue of its priority.
File(q, th, t) ==
    LET sjf == [x, y \in Threads |-> CompareSJF(th, x, y)]
        pri == [x, y \in Threads |-> ComparePriority(th, x, y)]
        rr == [x, y \in Threads |-> CompareRR(th, x, y)]
    IN  CASE Band(th[t].priority) = 1 ->
                 [q EXCEPT !.L1 = Insert(q.L1, t, sjf)]
          [] Band(th[t].priority) = 2 ->
                 [q EXCEPT !.L2 = Insert(q.L2, t, pri)]
          [] OTHER -> [q EXCEPT !.L3 = Insert(q.L3, t, rr)]

\* Mutant: FindNextToRun that returns the front thread and leaves it in its
\* queue.
NextToRunPeek(L1, L2, L3, type) ==
    IF L1 # << >>
    THEN [ret |-> Head(L1), L1 |-> L1, L2 |-> L2, L3 |-> L3, type |-> "SJF"]
    ELSE IF L2 # << >>
    THEN [ret |-> Head(L2), L1 |-> L1, L2 |-> L2, L3 |-> L3,
          type |-> "Priority"]
    ELSE IF L3 # << >>
    THEN [ret |-> Head(L3), L1 |-> L1, L2 |-> L2, L3 |-> L3, type |-> "RR"]
    ELSE [ret |-> NULL, L1 |-> L1, L2 |-> L2, L3 |-> L3, type |-> type]

\* Mutant: FindNextToRun that looks at L2 first.
NextToRunL2First(L1, L2, L3, type) ==
    IF L2 # << >>
    THEN [ret |-> Head(L2), L1 |-> L1, L2 |-> Tail(L2), L3 |-> L3,
          type |-> "Priority"]
    ELSE IF L1 # << >>
    THEN [ret |-> Head(L1), L1 |-> Tail(L1), L2 |-> L2, L3 |-> L3,
          type |-> "SJF"]
    ELSE IF L3 # << >>
    THEN [ret |-> Head(L3), L1 |-> L1, L2 |-> L2, L3 |-> Tail(L3),
          type |-> "RR"]
    ELSE [ret |-> NULL, L1 |-> L1, L2 |-> L2, L3 |-> L3, type |-> type]

\* Scheduler::FindNextToRun.
NextToRun(L1, L2, L3, type) ==
    IF L1 # << >>
    THEN [ret |-> Head(L1), L1 |-> Tail(L1), L2 |-> L2, L3 |-> L3,
          type |-> "SJF"]
    ELSE IF L2 # << >>
    THEN [ret |-> Head(L2), L1 |-> L1, L2 |-> Tail(L2), L3 |-> L3,
          type |-> "Priority"]
    ELSE IF L3 # << >>
    THEN [ret |-> Head(L3), L1 |-> L1, L2 |-> L2, L3 |-> Tail(L3),
          type |-> "RR"]
    ELSE [ret |-> NULL, L1 |-> L1, L2 |-> L2, L3 |-> L3, type |-> type]

\* Scheduler::isPreemptive.
isPreemptive(type, L1) ==
    IF type = "Priority" \/ (type = "SJF" /\ L1 = << >>) THEN FALSE
    ELSE TRUE

\* The priority ageUpdate adds when increaseAge() returns TRUE.
AgeBoost == 10

\* One of the three loops of ageUpdate: the threads of src, front first,
\* each aged and inserted into a new queue; threads of the old L2 and L3
\* go one band up when their priority is beyond the band's limit.
RECURSIVE AgeLoop(_, _, _, _)
AgeLoop(from, src, st, aged) ==
    IF src = << >> THEN st
    ELSE LET t == Head(src)
             th == IF t \in aged
                   THEN [st.th EXCEPT ![t].priority = @ + AgeBoost]
                   ELSE st.th
             sjf == [x, y \in Threads |-> CompareSJF(th, x, y)]
             pri == [x, y \in Threads |-> ComparePriority(th, x, y)]
             rr == [x, y \in Threads |-> CompareRR(th, x, y)]
             s1 == [st EXCEPT !.th = th]
             s2 == CASE from = 1 -> [s1 EXCEPT !.L1 = Insert(@, t, sjf)]
                     [] from = 2 ->
                            IF th[t].priority > 99
                            THEN [s1 EXCEPT !.L1 = Insert(@, t, sjf)]
                            ELSE [s1 EXCEPT !.L2 = Insert(@, t, pri)]
                     [] OTHER ->
                            IF th[t].priority > 49
                            THEN [s1 EXCEPT !.L2 = Insert(@, t, pri)]
                            ELSE [s1 EXCEPT !.L3 = Insert(@, t, rr)]
         IN  AgeLoop(from, Tail(src), s2, aged)

\* Mutant: ageUpdate that raises the priorities and leaves every thread in
\* its queue.
ageUpdateInPlace(th, L1, L2, L3, aged) ==
    [th |-> [t \in DOMAIN th |->
                 IF t \in aged
                 THEN [th[t] EXCEPT !.priority = @ + AgeBoost]
                 ELSE th[t]],
     L1 |-> L1, L2 |-> L2, L3 |-> L3]

\* Mutant: ageUpdate that raises no priority.
ageUpdateIdle(th, L1, L2, L3, aged) ==
    [th |-> th, L1 |-> L1, L2 |-> L2, L3 |-> L3]

\* Mutant: ageUpdate without its third loop: the old L3 is dropped.
ageUpdateDropL3(th, L1, L2, L3, aged) ==
    LET s0 == [th |-> th, L1 |-> << >>, L2 |-> << >>, L3 |-> << >>]
        s1 == AgeLoop(1, L1, s0, aged)
    IN  AgeLoop(2, L2, s1, aged)

\* Scheduler::ageUpdate; aged are the threads whose increaseAge() returns
\* TRUE.
ageUpdate(th, L1, L2, L3, aged) ==
    LET s0 == [th |-> th, L1 |-> << >>, L2 |-> << >>, L3 |-> << >>]
        s1 == AgeLoop(1, L1, s0, aged)
        s2 == AgeLoop(2, L2, s1, aged)
    IN  AgeLoop(3, L3, s2, aged)

\* Mutant: Run that deletes the finishing thread before it switches.
RunDeleteNow(cur, tbd, gone, nextThread, finishing) ==
    [cur |-> nextThread, tbd |-> IF finishing THEN cur ELSE tbd,
     gone |-> IF finishing THEN gone \cup {cur} ELSE gone, abort |-> ""]

\* Scheduler::Run(nextThread, finishing) up to SWITCH, on currentThread
\* (cur), toBeDestroyed (tbd) and the threads deleted so far (gone).
RunSwitch(cur, tbd, gone, nextThread, finishing) ==
    IF finishing /\ tbd # NULL
    THEN [cur |-> cur, tbd |-> tbd, gone |-> gone, abort |-> "Scheduler::Run"]
    ELSE [cur |-> nextThread, tbd |-> IF finishing THEN cur ELSE tbd,
          gone |-> gone, abort |-> ""]

\* Mutant: CheckToBeDestroyed that deletes the thread and keeps the pointer.
DestroyKeepPointer(tbd, gone) ==
    IF tbd # NULL THEN [tbd |-> tbd, gone |-> gone \cup {tbd}]
    ELSE [tbd |-> tbd, gone |-> gone]

\* Scheduler::CheckToBeDestroyed on toBeDestroyed and the threads deleted so
\* far.
DestroyPending(tbd, gone) ==
    IF tbd # NULL THEN [tbd |-> NULL, gone |-> gone \cup {tbd}]
    ELSE [tbd |-> tbd, gone |-> gone]

(***************************************************************************)
(* The machine.  One object is exercised per run: "variant" names its      *)
(* class.  hdr, thdr and blk are the linked-block header, the table-based  *)
(* header and the indirect block that Allocate, Deallocate, WriteBack and  *)
(* ByteToSector are called on; hdr2, thdr2 and blk2 are newly constructed  *)
(* objects of the same class that FetchFrom is called on.  pc is where the *)
(* run stands: "fresh" (constructed), "failed" or "allocated" (after       *)
(* Allocate), "deallocated", "written" (after WriteBack), "fetched" (after *)
(* FetchFrom on the second object).  last records the latest call, alloc   *)
(* the run's Allocate call, mapBefore the bitmap that call found; aborted  *)
(* names the assertion that failed, if one did.                            *)
(***************************************************************************)
VARIABLES variant, freeMap, disk, hdr, hdr2, thdr, thdr2, blk, blk2,
          pc, aborted, mapBefore, alloc, last

\* files are the FileHeader objects (linked-block design) of a run in which
\* several files take their sectors from the one bitmap: each with its
\* header and where it stands ("fresh", "failed", "allocated",
\* "deallocated").
VARIABLES files

\* The scheduler: thr gives every Thread its priority, burst time and
\* status; L1List, L2List and L3List are the ready queues, front first;
\* schedulerType is the band of the latest dispatch; handed are the threads
\* FindNextToRun has returned and ReadyToRun has not filed again.
VARIABLES thr, L1List, L2List, L3List, schedulerType, handed

\* The kernel around the scheduler: intLevel is the interrupt level,
\* currentThread the running thread (NULL where the run does not follow
\* it), toBeDestroyed the scheduler's field, destroyed the threads deleted
\* so far; switched holds from Run's SWITCH until the thread switched to
\* has called CheckToBeDestroyed; aging is an ageUpdate under way with
\* interrupts enabled and its lists nL1List, nL2List, nL3List.
VARIABLES intLevel, currentThread, toBeDestroyed, destroyed, switched, aging

fsVars == <<freeMap, disk, hdr, hdr2, thdr, thdr2, blk, blk2, pc,
            mapBefore, alloc, files>>

kernelVars == <<intLevel, currentThread, toBeDestroyed, destroyed, switched,
                aging>>

schedVars == <<thr, L1List, L2List, L3List, schedulerType, handed>>

vars == <<variant, freeMap, disk, hdr, hdr2, thdr, thdr2, blk, blk2,
          pc, aborted, mapBefore, alloc, last, files,
          thr, L1List, L2List, L3List, schedulerType, handed,
          intLevel, currentThread, toBeDestroyed, destroyed, switched, aging>>

Variants ==
    {"linked", "table", "single", "doubly", "triple", "shared", "scheduler",
     "kernel"}

\* The runs of the scheduler: its queues alone, with interrupts disabled
\* throughout, or with the interrupt level and the running thread.
SchedulerVariants == {"scheduler", "kernel"}

Level == CASE variant = "single" -> 1
           [] variant = "doubly" -> 2
           [] OTHER -> 3

\* Largest file, in sectors, that a header is asked for.
MaxFileSectors == 10

\* Byte sizes asked of FileHeader::Allocate: whole sectors and one byte more.
FileSizes ==
    {n * SectorSize : n \in 0 .. MaxFileSectors}
        \cup {n * SectorSize + 1 : n \in 0 .. MaxFileSectors - 1}

\* Sector counts asked of an indirect block's Allocate.
BlockRequests == -1 .. MAX_BLOCKS * MAX_BLOCKS + 1

\* The sector the object itself is stored in (claimed for it when the file
\* was created): WriteBack and FetchFrom are called with it.
OwnSector == CHOOSE s \in Sectors : \A t \in Sectors : s <= t

\* A run starts with at most LowFree free sectors, or with every sector
\* but the object's own free.
LowFree == 6

\* The bitmaps a run starts from: the object's own sector and the sectors
\* after it up to some sector are in use.
InitMaps ==
    {OwnSector .. u : u \in {OwnSector} \cup
                            (NumSectors - 1 - LowFree .. NumSectors - 1)}

\* The offsets ByteToSector is called with: the first byte of every sector
\* of the file and the file's last byte.
ProbeOffsets(numBytes) ==
    {o \in 0 .. numBytes - 1 : o % SectorSize = 0 \/ o = numBytes - 1}

\* The FileHeader objects that share the bitmap.
MaxHeaders == 3

Files == 1 .. MaxHeaders

\* Largest file, in sectors, asked for where the bitmap is shared.
MaxSharedSectors == 4

\* The sizes asked for there: nothing, one direct slot, one sector beyond
\* the direct slots, the largest file.
SharedSizes ==
    {n * SectorSize : n \in {0, 1, NumDirect + 1, MaxSharedSectors}}

\* The bitmaps such a run starts from: all free but the first sector, or
\* LowFree sectors free.
SharedMaps == {OwnSector .. u : u \in {OwnSector, NumSectors - 1 - LowFree}}

\* The record of a call: the operation, the object it was called on, its
\* argument, its integer result (ret) or Boolean result (ok), the sectors
\* handed to Clear (calls), the children an indirect block's Allocate
\* filled (log), and for ageUpdate the threads that aged.
NotAging == [on |-> FALSE, L1 |-> << >>, L2 |-> << >>, L3 |-> << >>]

\* The threads of a run that follows the running thread: thread 1 is
\* running, threads 2 and 3 are created and not yet ready; one thread of
\* Band 1 and two of Band 2.
KernelThreads ==
    [t \in Threads |->
        IF t = 1
        THEN [NewThread(100, InitBurstTime(t)) EXCEPT !.status = "RUNNING"]
        ELSE NewThread(IF t = 2 THEN 99 ELSE 90, InitBurstTime(t))]

NoCall == [op |-> "none", on |-> 0, arg |-> 0, ret |-> 0, calls |-> << >>,
           log |-> << >>, inRange |-> TRUE, rep |-> << >>, aged |-> {},
           ok |-> FALSE]

Init ==
    /\ variant \in Variants
    /\ freeMap \in CASE variant = "shared" -> SharedMaps
                      [] variant \in SchedulerVariants -> {{OwnSector}}
                      [] OTHER -> InitMaps
    /\ disk = [s \in Sectors |-> BlankSector]
    /\ hdr = NewLinkedHeader
    /\ hdr2 = NewLinkedHeader
    /\ thdr = NewTableHeader
    /\ thdr2 = NewTableHeader
    /\ blk = NewIndirectBlock
    /\ blk2 = NewIndirectBlock
    /\ pc = "fresh"
    /\ aborted = ""
    /\ mapBefore = freeMap
    /\ alloc = NoCall
    /\ last = NoCall
    /\ files = [f \in Files |-> [hdr |-> NewLinkedHeader, st |-> "fresh"]]
    /\ thr \in CASE variant = "scheduler" -> NewThreads
                  [] variant = "kernel" -> {KernelThreads}
                  [] OTHER -> {[t \in Threads |-> NewThread(0, 0)]}
    /\ L1List = << >>
    /\ L2List = << >>
    /\ L3List = << >>
    /\ schedulerType = "Priority"
    /\ handed = {}
    /\ intLevel = "IntOff"
    /\ currentThread = IF variant = "kernel" THEN 1 ELSE NULL
    /\ toBeDestroyed = NULL
    /\ destroyed = {}
    /\ switched = FALSE
    /\ aging = NotAging

\* What an action leaves when an assertion fails inside the call: the
\* machine halts where it stands.
Halt(call, why) ==
    /\ aborted' = why
    /\ last' = call
    /\ alloc' = IF call.op = "Allocate" THEN call ELSE alloc
    /\ UNCHANGED <<variant, freeMap, disk, hdr, hdr2, thdr, thdr2, blk, blk2,
                   pc, mapBefore>>

\* Some argument handed to Clear is no bit of the bitmap.
BadClear(calls) == \E n \in 1 .. Len(calls) : ~ClearInContract(calls[n])

\* The record of a ByteToSector call.
Translation(on, offset, ret, inRange) ==
    [NoCall EXCEPT !.op = "ByteToSector", !.on = on, !.arg = offset,
                   !.ret = ret, !.inRange = inRange,
                   !.rep = IF /\ last.op = "ByteToSector"
                              /\ last.on = on
                              /\ last.arg = offset
                           THEN <<last.ret>> ELSE << >>]

(*------------------------ linked-block header --------------------------*)
LinkedHdrAllocate(fileSize) ==
    /\ variant = "linked" /\ aborted = "" /\ pc = "fresh"
    /\ LET r == LinkedAllocate(hdr, freeMap, fileSize)
           call == [NoCall EXCEPT !.op = "Allocate", !.on = 1,
                                  !.arg = fileSize, !.ok = r.ret]
       IN  IF r.abort # ""
           THEN Halt(call, r.abort)
           ELSE /\ hdr' = r.hdr
                /\ freeMap' = r.map
                /\ mapBefore' = freeMap
                /\ pc' = IF r.ret THEN "allocated" ELSE "failed"
                /\ last' = call
                /\ alloc' = call
                /\ UNCHANGED <<variant, disk, hdr2, thdr, thdr2, blk, blk2,
                               aborted>>

LinkedHdrDeallocate ==
    /\ variant = "linked" /\ aborted = "" /\ pc = "allocated"
    /\ LET r == LinkedDeallocate(hdr, freeMap)
           call == [NoCall EXCEPT !.op = "Deallocate", !.on = 1,
                                  !.calls = r.calls]
       IN  IF r.abort # ""
           THEN Halt(call, r.abort)
           ELSE IF BadClear(r.calls)
           THEN Halt(call, "Bitmap::Clear")
           ELSE /\ freeMap' = r.map
                /\ pc' = "deallocated"
                /\ last' = call
                /\ UNCHANGED <<variant, disk, hdr, hdr2, thdr, thdr2, blk,
                               blk2, aborted, mapBefore, alloc>>

LinkedHdrWriteBack ==
    /\ variant = "linked" /\ aborted = "" /\ pc = "allocated"
    /\ LET r == LinkedWriteBack(hdr, disk, OwnSector)
           call == [NoCall EXCEPT !.op = "WriteBack", !.on = 1,
                                  !.arg = OwnSector]
       IN  IF r.abort # ""
           THEN Halt(call, r.abort)
           ELSE /\ disk' = r.disk
                /\ pc' = "written"
                /\ last' = call
                /\ UNCHANGED <<variant, freeMap, hdr, hdr2, thdr, thdr2, blk,
                               blk2, aborted, mapBefore, alloc>>

LinkedHdrFetchFrom ==
    /\ variant = "linked" /\ aborted = "" /\ pc = "written"
    /\ LET r == LinkedFetchFrom(hdr2, disk, OwnSector)
           call == [NoCall EXCEPT !.op = "FetchFrom", !.on = 2,
                                  !.arg = OwnSector]
       IN  IF r.abort # ""
           THEN Halt(call, r.abort)
           ELSE /\ hdr2' = r.hdr
                /\ pc' = "fetched"
                /\ last' = call
                /\ UNCHANGED <<variant, freeMap, disk, hdr, thdr, thdr2, blk,
                               blk2, aborted, mapBefore, alloc>>

\* ByteToSector(offset) on hdr (on = 1, after Allocate) or on hdr2 (on = 2,
\* after FetchFrom).
LinkedHdrByteToSector(on) ==
    /\ variant = "linked" /\ aborted = ""
    /\ IF on = 1 THEN pc = "allocated" ELSE pc = "fetched"
    /\ LET h == IF on = 1 THEN hdr ELSE hdr2
       IN  \E offset \in ProbeOffsets(h.numBytes) :
               LET r == LinkedByteToSector(h, offset)
                   call == Translation(on, offset, r.ret, TRUE)
               IN  IF r.abort # ""
                   THEN Halt(call, r.abort)
                   ELSE /\ last' = call
                        /\ UNCHANGED <<variant, freeMap, disk, hdr, hdr2, thdr,
                                       thdr2, blk, blk2, pc, aborted,
                                       mapBefore, alloc>>

LinkedNext ==
    \/ \E fileSize \in FileSizes : LinkedHdrAllocate(fileSize)
    \/ LinkedHdrDeallocate
    \/ LinkedHdrWriteBack
    \/ LinkedHdrFetchFrom
    \/ \E on \in {1, 2} : LinkedHdrByteToSector(on)

(*--------------------------- indirect blocks ---------------------------*)
BlockAllocate(numSectors) ==
    /\ variant \in {"single", "doubly", "triple"} /\ aborted = ""
    /\ pc = "fresh"
    /\ LET r == IF Level = 1
                THEN SingleAllocate(blk, freeMap, numSectors)
                         @@ [disk |-> disk, log |-> << >>]
                ELSE IndirectAllocate(Level, blk, freeMap, disk, numSectors)
           call == [NoCall EXCEPT !.op = "Allocate", !.on = 1,
                                  !.arg = numSectors, !.ret = r.ret,
                                  !.log = r.log]
       IN  IF r.abort # ""
           THEN Halt(call, r.abort)
           ELSE /\ blk' = r.ds
                /\ freeMap' = r.map
                /\ disk' = r.disk
                /\ mapBefore' = freeMap
                /\ pc' = IF r.ret >= 0 THEN "allocated" ELSE "failed"
                /\ last' = call
                /\ alloc' = call
                /\ UNCHANGED <<variant, hdr, hdr2, thdr, thdr2, blk2, aborted>>

BlockDeallocate ==
    /\ variant \in {"single", "doubly", "triple"} /\ aborted = ""
    /\ pc = "allocated"
    /\ LET r == IF Level = 1
                THEN SingleDeallocate(blk, freeMap) @@ [disk |-> disk]
                ELSE IndirectDeallocate(Level, blk, freeMap, disk)
           call == [NoCall EXCEPT !.op = "Deallocate", !.on = 1,
                                  !.calls = r.calls]
       IN  IF r.abort # ""
           THEN Halt(call, r.abort)
           ELSE /\ freeMap' = r.map
                /\ disk' = r.disk
                /\ pc' = "deallocated"
                /\ last' = call
                /\ UNCHANGED <<variant, hdr, hdr2, thdr, thdr2, blk, blk2,
                               aborted, mapBefore, alloc>>

BlockWriteBack ==
    /\ variant \in {"single", "doubly", "triple"} /\ aborted = ""
    /\ pc = "allocated"
    /\ disk' = IndirectWriteBack(Level, blk, disk, OwnSector)
    /\ pc' = "written"
    /\ last' = [NoCall EXCEPT !.op = "WriteBack", !.on = 1, !.arg = OwnSector]
    /\ UNCHANGED <<variant, freeMap, hdr, hdr2, thdr, thdr2, blk, blk2,
                   aborted, mapBefore, alloc>>

BlockFetchFrom ==
    /\ variant \in {"single", "doubly", "triple"} /\ aborted = ""
    /\ pc = "written"
    /\ LET r == IndirectFetchFrom(Level, blk2, disk, OwnSector)
       IN  /\ blk2' = r.ds
           /\ disk' = r.disk
    /\ pc' = "fetched"
    /\ last' = [NoCall EXCEPT !.op = "FetchFrom", !.on = 2, !.arg = OwnSector]
    /\ UNCHANGED <<variant, freeMap, hdr, hdr2, thdr, thdr2, blk, aborted,
                   mapBefore, alloc>>

\* What a read outside an array may give: the sentinel, a sector of the
\* disk, or a number that is no sector.
WildReads == {EmptyBlock, OwnSector, NumSectors - 1, NumSectors}

\* The leaves a block of the given level can address.
Capacity(level) ==
    IF level = 1 THEN MAX_BLOCKS
    ELSE IF level = 2 THEN MAX_BLOCKS * MAX_BLOCKS
    ELSE MAX_BLOCKS * MAX_BLOCKS * MAX_BLOCKS

\* The offsets ByteToSector is called with on a block that holds n leaves:
\* the first byte of every sector and the last byte of the file, the first
\* byte behind the file, and the first byte behind what the block can
\* address.
TreeOffsets(n) ==
    ProbeOffsets(n * SectorSize)
        \cup {n * SectorSize, Capacity(Level) * SectorSize}

\* ByteToSector(offset) on blk, after Allocate or after WriteBack.  What
\* FetchFrom wrote before an assertion failed stays on the disk.
BlockByteToSector ==
    /\ variant \in {"single", "doubly", "triple"} /\ aborted = ""
    /\ pc \in {"allocated", "written"}
    /\ \E offset \in TreeOffsets(alloc.ret), wild \in WildReads :
           LET r == IndirectByteToSector(Level, blk, disk, offset, wild)
           IN  /\ last' = Translation(1, offset, r.ret, r.inRange)
               /\ disk' = r.disk
               /\ aborted' = r.abort
    /\ UNCHANGED <<variant, freeMap, hdr, hdr2, thdr, thdr2, blk, blk2, pc,
                   mapBefore, alloc>>

\* The most sectors a second Allocate asks for, short of a whole block.
MaxGrow == 2

\* What the second Allocate on a block is called with.
GrowRequests == (1 .. MaxGrow) \cup {MAX_BLOCKS}

\* Allocate(freeMap, numSectors) called once more on blk, which holds the
\* leaves of the first call and has been written back: the file grows.
BlockGrow(numSectors) ==
    /\ variant \in {"single", "doubly", "triple"} /\ aborted = ""
    /\ pc = "written"
    /\ LET r == IF Level = 1
                THEN SingleAllocate(blk, freeMap, numSectors)
                         @@ [disk |-> disk, log |-> << >>]
                ELSE IndirectAllocate(Level, blk, freeMap, disk, numSectors)
           call == [NoCall EXCEPT !.op = "AllocateAgain", !.on = 1,
                                  !.arg = numSectors, !.ret = r.ret,
                                  !.log = r.log]
       IN  /\ blk' = r.ds
           /\ freeMap' = r.map
           /\ disk' = r.disk
           /\ aborted' = r.abort
           /\ pc' = "grown"
           /\ last' = call
           /\ UNCHANGED <<variant, hdr, hdr2, thdr, thdr2, blk2, mapBefore,
                          alloc>>

TreeNext ==
    \/ \E numSectors \in BlockRequests : BlockAllocate(numSectors)
    \/ BlockDeallocate
    \/ BlockWriteBack
    \/ BlockFetchFrom
    \/ BlockByteToSector
    \/ \E numSectors \in GrowRequests : BlockGrow(numSectors)

(*------------------------- table-based header --------------------------*)
TableHdrAllocate(fileSize) ==
    /\ variant = "table" /\ aborted = "" /\ pc = "fresh"
    /\ LET r == TableAllocate(thdr, freeMap, fileSize)
           call == [NoCall EXCEPT !.op = "Allocate", !.on = 1,
                                  !.arg = fileSize, !.ok = r.ret]
       IN  IF r.abort # ""
           THEN Halt(call, r.abort)
           ELSE /\ thdr' = r.hdr
                /\ freeMap' = r.map
                /\ mapBefore' = freeMap
                /\ pc' = IF r.ret THEN "allocated" ELSE "failed"
                /\ last' = call
                /\ alloc' = call
                /\ UNCHANGED <<variant, disk, hdr, hdr2, thdr2, blk, blk2,
                               aborted>>

TableHdrWriteBack ==
    /\ variant = "table" /\ aborted = "" /\ pc = "allocated"
    /\ LET r == TableWriteBack(thdr, disk, OwnSector)
           call == [NoCall EXCEPT !.op = "WriteBack", !.on = 1,
                                  !.arg = OwnSector]
       IN  IF r.abort # ""
           THEN Halt(call, r.abort)
           ELSE /\ disk' = r.disk
                /\ pc' = "written"
                /\ last' = call
                /\ UNCHANGED <<variant, freeMap, hdr, hdr2, thdr, thdr2, blk,
                               blk2, aborted, mapBefore, alloc>>

TableHdrFetchFrom ==
    /\ variant = "table" /\ aborted = "" /\ pc = "written"
    /\ LET r == TableFetchFrom(thdr2, disk, OwnSector)
           call == [NoCall EXCEPT !.op = "FetchFrom", !.on = 2,
                                  !.arg = OwnSector]
       IN  IF r.abort # ""
           THEN Halt(call, r.abort)
           ELSE /\ thdr2' = r.hdr
                /\ pc' = "fetched"
                /\ last' = call
                /\ UNCHANGED <<variant, freeMap, disk, hdr, hdr2, thdr, blk,
                               blk2, aborted, mapBefore, alloc>>

\* ByteToSector(offset) on thdr (on = 1, after Allocate) or on thdr2
\* (on = 2, after FetchFrom).  A subscript outside its array reads whatever
\* lies there.
TableHdrByteToSector(on) ==
    /\ variant = "table" /\ aborted = ""
    /\ IF on = 1 THEN pc = "allocated" ELSE pc = "fetched"
    /\ LET h == IF on = 1 THEN thdr ELSE thdr2
       IN  \E offset \in ProbeOffsets(h.numBytes) :
               LET r == TableByteToSector(h, offset)
               IN  \E ret \in IF r.inRange THEN {r.ret} ELSE WildReads :
                       /\ last' = Translation(on, offset, ret, r.inRange)
                       /\ UNCHANGED <<variant, freeMap, disk, hdr, hdr2, thdr,
                                      thdr2, blk, blk2, pc, aborted, mapBefore, alloc>>

TableNext ==
    \/ \E fileSize \in FileSizes : TableHdrAllocate(fileSize)
    \/ TableHdrWriteBack
    \/ TableHdrFetchFrom
    \/ \E on \in {1, 2} : TableHdrByteToSector(on)

(*------------------- several headers on one bitmap ---------------------*)
\* FileHeader::Allocate on the f-th header.
SharedAllocate(f, fileSize) ==
    /\ variant = "shared" /\ aborted = "" /\ files[f].st = "fresh"
    /\ LET r == LinkedAllocate(files[f].hdr, freeMap, fileSize)
           call == [NoCall EXCEPT !.op = "FileAllocate", !.on = f,
                                  !.arg = fileSize, !.ok = r.ret]
       IN  IF r.abort # ""
           THEN Halt(call, r.abort) /\ UNCHANGED files
           ELSE /\ files' = [files EXCEPT ![f] =
                                 [hdr |-> r.hdr,
                                  st |-> IF r.ret THEN "allocated"
                                         ELSE "failed"]]
                /\ freeMap' = r.map
                /\ mapBefore' = freeMap
                /\ last' = call
                /\ UNCHANGED <<variant, disk, hdr, hdr2, thdr, thdr2, blk,
                               blk2, pc, aborted, alloc>>

\* FileHeader::Deallocate on the f-th header.
SharedDeallocate(f) ==
    /\ variant = "shared" /\ aborted = "" /\ files[f].st = "allocated"
    /\ LET r == LinkedDeallocate(files[f].hdr, freeMap)
           call == [NoCall EXCEPT !.op = "FileDeallocate", !.on = f,
                                  !.calls = r.calls]
       IN  IF r.abort # ""
           THEN Halt(call, r.abort) /\ UNCHANGED files
           ELSE IF BadClear(r.calls)
           THEN Halt(call, "Bitmap::Clear") /\ UNCHANGED files
           ELSE /\ files' = [files EXCEPT ![f].st = "deallocated"]
                /\ freeMap' = r.map
                /\ mapBefore' = freeMap
                /\ last' = call
                /\ UNCHANGED <<variant, disk, hdr, hdr2, thdr, thdr2, blk,
                               blk2, pc, aborted, alloc>>

SharedNext ==
    \/ \E f \in Files, fileSize \in SharedSizes : SharedAllocate(f, fileSize)
    \/ \E f \in Files : SharedDeallocate(f)

\* The operations on one object leave the other files alone.
ObjectNext == (LinkedNext \/ TreeNext \/ TableNext) /\ UNCHANGED files

\* The file system does not touch the scheduler.
FileSystemNext ==
    (ObjectNext \/ SharedNext) /\ UNCHANGED <<schedVars, kernelVars>>

(*------------------------------ scheduler ------------------------------*)
\* ASSERT(kernel->interrupt->getLevel() == IntOff), or another assertion of
\* the scheduler, fails: the machine halts where it stands.
Refuse(call, why) ==
    /\ aborted' = why
    /\ last' = call
    /\ UNCHANGED <<variant, schedVars, kernelVars>>

\* No call is under way: the thread switched to has taken over, and no
\* ageUpdate stands interrupted.
Idle == aborted = "" /\ ~switched /\ ~aging.on

\* Scheduler::ReadyToRun(thread), for a thread that is in no queue.
ReadyToRun(t) ==
    /\ variant \in SchedulerVariants /\ Idle
    /\ t \notin Queued(L1List, L2List, L3List)
    /\ t \notin destroyed
    /\ LET call == [NoCall EXCEPT !.op = "ReadyToRun", !.arg = t]
           th == [thr EXCEPT ![t].status = "READY"]
           q == [L1 |-> L1List, L2 |-> L2List, L3 |-> L3List]
           r == File(q, th, t)
       IN  IF intLevel # "IntOff"
           THEN Refuse(call, "Scheduler::ReadyToRun")
           ELSE /\ thr' = th
                /\ L1List' = r.L1
                /\ L2List' = r.L2
                /\ L3List' = r.L3
                /\ handed' = handed \ {t}
                /\ last' = call
                /\ UNCHANGED <<variant, schedulerType, aborted, kernelVars>>
    /\ UNCHANGED fsVars

\* Scheduler::FindNextToRun().
FindNextToRun ==
    /\ variant \in SchedulerVariants /\ Idle
    /\ LET r == NextToRun(L1List, L2List, L3List, schedulerType)
           call == [NoCall EXCEPT !.op = "FindNextToRun", !.ret = r.ret]
       IN  IF intLevel # "IntOff"
           THEN Refuse([call EXCEPT !.ret = NULL], "Scheduler::FindNextToRun")
           ELSE /\ L1List' = r.L1
                /\ L2List' = r.L2
                /\ L3List' = r.L3
                /\ schedulerType' = r.type
                /\ handed' = IF r.ret = NULL THEN handed
                             ELSE handed \cup {r.ret}
                /\ last' = call
                /\ UNCHANGED <<variant, thr, aborted, kernelVars>>
    /\ UNCHANGED fsVars

\* Scheduler::isPreemptive(): it reads schedulerType and L1List, whenever
\* it is called.
IsPreemptiveCall ==
    /\ variant \in SchedulerVariants /\ aborted = "" /\ ~switched
    /\ last' = [NoCall EXCEPT !.op = "isPreemptive",
                              !.ok = isPreemptive(schedulerType, L1List)]
    /\ UNCHANGED <<variant, thr, L1List, L2List, L3List, schedulerType,
                   handed, aborted, kernelVars>>
    /\ UNCHANGED fsVars

\* Scheduler::ageUpdate() run from its first statement to its last with
\* nothing between, increaseAge() returning TRUE for the threads of aged.
\* Priorities stay within MaxPriority.
AgeUpdate(aged) ==
    /\ variant \in SchedulerVariants /\ Idle
    /\ intLevel = "IntOff"
    /\ aged \subseteq Queued(L1List, L2List, L3List)
    /\ \A t \in aged : thr[t].priority + AgeBoost <= MaxPriority
    /\ LET r == ageUpdate(thr, L1List, L2List, L3List, aged)
       IN  /\ thr' = r.th
           /\ L1List' = r.L1
           /\ L2List' = r.L2
           /\ L3List' = r.L3
    /\ last' = [NoCall EXCEPT !.op = "ageUpdate", !.aged = aged]
    /\ UNCHANGED <<variant, schedulerType, handed, aborted, kernelVars>>
    /\ UNCHANGED fsVars

\* ageUpdate() in which increaseAge() of thread t returns TRUE.
AgeUpdateOf(t) ==
    \E aged \in SUBSET Threads : t \in aged /\ AgeUpdate(aged)

AgeUpdateAny == \E aged \in SUBSET Threads : AgeUpdate(aged)

SchedulerNext ==
    \/ \E t \in Threads : ReadyToRun(t)
    \/ FindNextToRun
    \/ IsPreemptiveCall
    \/ AgeUpdateAny

(*------------------- the kernel around the scheduler -------------------*)
\* Interrupt::SetLevel(now).
SetLevel(now) ==
    /\ variant = "kernel" /\ Idle
    /\ intLevel # now
    /\ intLevel' = now
    /\ last' = [NoCall EXCEPT !.op = "SetLevel"]
    /\ UNCHANGED <<variant, schedVars, aborted, currentThread, toBeDestroyed,
                   destroyed, switched, aging>>
    /\ UNCHANGED fsVars

\* Scheduler::Run(nextThread, finishing) up to SWITCH.  Its callers pass a
\* thread that FindNextToRun returned, and pass finishing for a running
\* thread that is in no queue.
Run(nextThread, finishing) ==
    /\ variant = "kernel" /\ Idle
    /\ nextThread \in handed \ ({currentThread} \cup destroyed)
    /\ finishing => currentThread \notin
                        handed \cup Queued(L1List, L2List, L3List)
    /\ LET call == [NoCall EXCEPT !.op = "Run", !.arg = nextThread,
                                  !.ok = finishing]
           r == RunSwitch(currentThread, toBeDestroyed, destroyed,
                          nextThread, finishing)
       IN  IF intLevel # "IntOff"
           THEN Refuse(call, "Scheduler::Run")
           ELSE IF r.abort # ""
           THEN Refuse(call, r.abort)
           ELSE /\ currentThread' = r.cur
                /\ toBeDestroyed' = r.tbd
                /\ destroyed' = r.gone
                /\ thr' = [thr EXCEPT ![nextThread].status = "RUNNING"]
                /\ handed' = handed \ {nextThread}
                /\ switched' = TRUE
                /\ last' = call
                /\ UNCHANGED <<variant, L1List, L2List, L3List,
                               schedulerType, aborted, intLevel, aging>>
    /\ UNCHANGED fsVars

\* Scheduler::CheckToBeDestroyed(), called by the thread switched to: after
\* SWITCH in its own Run, or where a new thread begins.
CheckToBeDestroyed ==
    /\ variant = "kernel" /\ aborted = "" /\ switched
    /\ LET r == DestroyPending(toBeDestroyed, destroyed)
       IN  /\ toBeDestroyed' = r.tbd
           /\ destroyed' = r.gone
    /\ switched' = FALSE
    /\ last' = [NoCall EXCEPT !.op = "CheckToBeDestroyed",
                              !.arg = toBeDestroyed]
    /\ UNCHANGED <<variant, schedVars, aborted, intLevel, currentThread, aging>>
    /\ UNCHANGED fsVars

\* Scheduler::ageUpdate() entered with interrupts enabled: it makes its
\* three new lists; an interrupt may come after any statement.
AgeUpdateEnter ==
    /\ variant = "kernel" /\ Idle
    /\ intLevel = "IntOn"
    /\ aging' = [on |-> TRUE, L1 |-> << >>, L2 |-> << >>, L3 |-> << >>]
    /\ last' = [NoCall EXCEPT !.op = "ageUpdate"]
    /\ UNCHANGED <<variant, schedVars, aborted, intLevel, currentThread,
                   toBeDestroyed, destroyed, switched>>
    /\ UNCHANGED fsVars

\* One turn of its loops: the front thread of the first of L1List, L2List,
\* L3List that holds one is removed, aged when increaseAge() returns TRUE
\* (ages), and inserted into a new list.
AgeUpdateStep(ages) ==
    /\ variant = "kernel" /\ aborted = "" /\ aging.on
    /\ Queued(L1List, L2List, L3List) # {}
    /\ LET from == IF L1List # << >> THEN 1
                   ELSE IF L2List # << >> THEN 2 ELSE 3
           src == CASE from = 1 -> L1List [] from = 2 -> L2List
                    [] OTHER -> L3List
           t == Head(src)
           st == AgeLoop(from, <<t>>,
                         [th |-> thr, L1 |-> aging.L1, L2 |-> aging.L2,
                          L3 |-> aging.L3],
                         IF ages THEN {t} ELSE {})
       IN  /\ ages => thr[t].priority + AgeBoost <= MaxPriority
           /\ thr' = st.th
           /\ aging' = [on |-> TRUE, L1 |-> st.L1, L2 |-> st.L2, L3 |-> st.L3]
           /\ L1List' = IF from = 1 THEN Tail(L1List) ELSE L1List
           /\ L2List' = IF from = 2 THEN Tail(L2List) ELSE L2List
           /\ L3List' = IF from = 3 THEN Tail(L3List) ELSE L3List
           /\ last' = [NoCall EXCEPT !.op = "ageUpdate",
                                     !.aged = IF ages THEN {t} ELSE {}]
    /\ UNCHANGED <<variant, schedulerType, handed, aborted, intLevel,
                   currentThread, toBeDestroyed, destroyed, switched>>
    /\ UNCHANGED fsVars

\* Its last three statements: the new lists become the queues.
AgeUpdateLeave ==
    /\ variant = "kernel" /\ aborted = "" /\ aging.on
    /\ Queued(L1List, L2List, L3List) = {}
    /\ L1List' = aging.L1
    /\ L2List' = aging.L2
    /\ L3List' = aging.L3
    /\ aging' = NotAging
    /\ last' = [NoCall EXCEPT !.op = "ageUpdate"]
    /\ UNCHANGED <<variant, thr, schedulerType, handed, aborted, intLevel,
                   currentThread, toBeDestroyed, destroyed, switched>>
    /\ UNCHANGED fsVars

KernelNext ==
    \/ \E now \in {"IntOff", "IntOn"} : SetLevel(now)
    \/ \E nextThread \in Threads, finishing \in BOOLEAN :
           Run(nextThread, finishing)
    \/ CheckToBeDestroyed
    \/ AgeUpdateEnter
    \/ \E ages \in BOOLEAN : AgeUpdateStep(ages)
    \/ AgeUpdateLeave

Next == FileSystemNext \/ SchedulerNext \/ KernelNext

\* ageUpdate is called again and again, and for each waiting thread
\* increaseAge() returns TRUE again and again.
Aging == \A t \in Threads : WF_vars(AgeUpdateOf(t))

Spec == Init /\ [][Next]_vars

\* The aging runs start with thread 1 in Band 3 and thread 2 in Band 1;
\* thread 3 starts in Band 3 or in Band 2.
LiveInit ==
    /\ Init
    /\ variant = "scheduler"
    /\ thr[1].priority = 40
    /\ thr[2].priority = 100

LiveSpec == LiveInit /\ [][SchedulerNext]_vars /\ Aging

(***************************************************************************)
(* The claims.                                                             *)
(***************************************************************************)
Headers == {"linked", "table"}

Blocks == {"single", "doubly", "triple"}

\* The sectors the run's Allocate call was asked for.
Requested ==
    IF variant \in Headers THEN divRoundUp(alloc.arg, SectorSize)
    ELSE alloc.arg

\* C1: linked-block header: when Allocate returned TRUE and Deallocate is
\* called next, Deallocate hands Clear nothing but bits of the bitmap, runs
\* to its end, and NumClear() is what it was before Allocate.
C1_LinkedAllocateDeallocateRestores ==
    (variant = "linked" /\ last.op = "Deallocate")
        => /\ ~BadClear(last.calls)
           /\ aborted = ""
           /\ NumClear(freeMap) = NumClear(mapBefore)

\* C2: indirection tree: when Allocate(n) on a new Single, Doubly or
\* TripleIndirectBlock returned n and Deallocate is called next, NumClear()
\* is what it was before Allocate.
C2_TreeAllocateDeallocateRestores ==
    (variant \in Blocks /\ last.op = "Deallocate" /\ alloc.ret = alloc.arg)
        => /\ aborted = ""
           /\ NumClear(freeMap) = NumClear(mapBefore)

\* C3: linked-block header: after Allocate returned TRUE, ByteToSector(o)
\* of every offset o below numBytes is a sector, not the sentinel, that the
\* bitmap marks used; and a call repeated with the same offset returns what
\* the call before it returned.
C3_LinkedByteToSectorUsed ==
    /\ (variant = "linked" /\ pc = "allocated")
           => \A o \in 0 .. hdr.numBytes - 1 :
                  LET r == LinkedByteToSector(hdr, o)
                  IN  /\ r.abort = ""
                      /\ r.ret # EmptyBlock
                      /\ Test(freeMap, r.ret)
    /\ (variant = "linked" /\ last.op = "ByteToSector" /\ last.rep # << >>)
           => aborted = "" /\ last.rep[1] = last.ret

\* C4: table-based header: after Allocate returned TRUE, for every offset
\* o below numBytes both subscripts of
\* dataSectors[virDataSectors[o / SectorSize]] are inside their arrays and
\* the value is a sector the bitmap marks used; two offsets in different
\* sectors of the file give different sectors.
C4_TableByteToSectorUsed ==
    (variant = "table" /\ pc = "allocated")
        => /\ \A o \in 0 .. thdr.numBytes - 1 :
                  LET r == TableByteToSector(thdr, o)
                  IN  r.inRange /\ r.ret # EmptyBlock /\ Test(freeMap, r.ret)
           /\ \A o1, o2 \in 0 .. thdr.numBytes - 1 :
                  o1 \div SectorSize # o2 \div SectorSize
                      => TableByteToSector(thdr, o1).ret
                             # TableByteToSector(thdr, o2).ret

\* C5: linked-block header: after Allocate returned TRUE, WriteBack(s) and
\* then FetchFrom(s) on a new header give a header with the same
\* FileLength(), the same ByteToSector(o) for every offset o below numBytes,
\* and every LinkedBlock of the chain in memory.
C5_LinkedWriteBackFetchFrom ==
    (variant = "linked" /\ pc = "fetched")
        => /\ FileLength(hdr2) = FileLength(hdr)
           /\ \A o \in 0 .. hdr.numBytes - 1 :
                  LinkedByteToSector(hdr2, o) = LinkedByteToSector(hdr, o)
           /\ hdr2.nextBlock = hdr.nextBlock
           /\ hdr2.chain = hdr.chain

\* C5 witness: a header with a chain of two LinkedBlocks has been fetched.
C5_Witness ==
    /\ variant = "linked" /\ last.op = "FetchFrom" /\ pc = "fetched"
    /\ Len(hdr.chain) >= 2 /\ hdr.numBytes > 0

\* C6: table-based header: after Allocate returned TRUE, WriteBack(s) and
\* then FetchFrom(s) on a new header give the same numBytes, numSectors,
\* root pointers, lower-level entries and ByteToSector(o) for every offset
\* o below numBytes.
C6_TableWriteBackFetchFrom ==
    (variant = "table" /\ last.op = "FetchFrom")
        => /\ aborted = ""
           /\ thdr2.numBytes = thdr.numBytes
           /\ thdr2.numSectors = thdr.numSectors
           /\ \A i \in 1 .. NumIndirect - 1 :
                  Get(thdr2.dataSectors, i) = Get(thdr.dataSectors, i)
           /\ thdr2.dataSectors = thdr.dataSectors
           /\ \A o \in 0 .. thdr.numBytes - 1 :
                  TableByteToSector(thdr2, o) = TableByteToSector(thdr, o)

\* C7: indirect block: WriteBack(s) on block X and then FetchFrom(s) on a
\* new block Y leave Y.dataSectors equal to X.dataSectors and the disk
\* sector as WriteBack stored it.
C7_BlockWriteBackFetchFrom ==
    (variant \in Blocks /\ last.op = "FetchFrom")
        => /\ blk2 = blk
           /\ disk[OwnSector] = ObjectImage(Level, blk)

\* Allocate reported failure: FALSE from a header, -1 from a block.
ReportedFailure ==
    IF variant \in Headers THEN last.ok = FALSE ELSE last.ret = -1

\* C8: every Allocate asked for more sectors than NumClear() reports
\* failure, trips no assertion and leaves the bitmap as it was.
C8_AllocateBeyondFreeFails ==
    (last.op = "Allocate" /\ Requested > NumClear(mapBefore))
        => /\ aborted = ""
           /\ pc = "failed"
           /\ ReportedFailure
           /\ freeMap = mapBefore
           /\ NumClear(freeMap) = NumClear(mapBefore)

\* C8 witness: a header was asked for more sectors than a bitmap with some
\* free sectors has.
C8_Witness ==
    /\ variant = "linked" /\ last.op = "Allocate" /\ pc = "failed"
    /\ Requested > NumClear(mapBefore) /\ NumClear(mapBefore) > 0

\* C9: exact fit: FileHeader::Allocate (either header) for a file of as
\* many sectors as the bitmap has free returns TRUE, trips no assertion and
\* leaves NumClear() = 0.
C9_ExactFit ==
    (variant \in Headers /\ last.op = "Allocate"
                         /\ Requested = NumClear(mapBefore))
        => /\ aborted = ""
           /\ last.ok = TRUE
           /\ NumClear(freeMap) = 0

\* The entries of the Allocate log for the children of one level.
LogOf(level) == SelectSeq(last.log, LAMBDA e : e.level = level)

\* The children were filled one after the other: each but the last holds
\* cap leaves, the last at least one.
FilledInOrder(entries, cap) ==
    \A k \in 1 .. Len(entries) :
        IF k < Len(entries) THEN entries[k].result = cap
        ELSE entries[k].result \in 1 .. cap

\* The bitmap had room for n leaves and the index blocks over them.
EnoughFor(level, n) ==
    NumClear(mapBefore) >=
        n + divRoundUp(n, MAX_BLOCKS)
          + (IF level = 3 THEN divRoundUp(n, MAX_BLOCKS * MAX_BLOCKS) ELSE 0)

\* Allocate(n) on a new block of the level gave n leaves in ceil(n / B)
\* single-level children (in ceil(n / B^2) doubly-level children too, for
\* level 3), the block's slots used from the front.
CrossedLevels(level, n) ==
    LET cap == IF level = 2 THEN MAX_BLOCKS ELSE MAX_BLOCKS * MAX_BLOCKS
    IN  /\ aborted = ""
        /\ last.ret = n
        /\ Len(LogOf(1)) = divRoundUp(n, MAX_BLOCKS)
        /\ FilledInOrder(LogOf(1), MAX_BLOCKS)
        /\ level = 3 => /\ Len(LogOf(2)) = divRoundUp(n, cap)
                        /\ FilledInOrder(LogOf(2), cap)
        /\ {i \in Slots : blk[i] # EMPTY_BLOCK} = 0 .. divRoundUp(n, cap) - 1
        /\ NumClear(freeMap) = NumClear(mapBefore) - n - Len(last.log)

\* C10: with B = MAX_BLOCKS and room in the bitmap for leaves and index
\* blocks, Allocate(n) on a new DoublyIndirectBlock for n in {B, B+1} and on
\* a new TripleIndirectBlock for n in {B*B, B*B+1} returns n and fills
\* ceil(n / B) single-level children (ceil(n / (B*B)) doubly-level ones),
\* each child full before the next one is begun.
C10_LevelCrossing ==
    /\ (variant = "doubly" /\ last.op = "Allocate"
            /\ last.arg \in {MAX_BLOCKS, MAX_BLOCKS + 1}
            /\ EnoughFor(2, last.arg))
           => CrossedLevels(2, last.arg)
    /\ (variant = "triple" /\ last.op = "Allocate"
            /\ last.arg \in {MAX_BLOCKS * MAX_BLOCKS,
                             MAX_BLOCKS * MAX_BLOCKS + 1}
            /\ EnoughFor(3, last.arg))
           => CrossedLevels(3, last.arg)

\* C10 witness: a TripleIndirectBlock was given B*B + 1 leaves, in two
\* doubly-level children.
C10_Witness ==
    /\ variant = "triple" /\ last.op = "Allocate" /\ aborted = ""
    /\ last.arg = MAX_BLOCKS * MAX_BLOCKS + 1
    /\ last.ret = last.arg
    /\ Len(LogOf(2)) = 2

\* The non-sentinel sector addresses a linked-block header holds: direct
\* slots, link sectors and the data slots of every LinkedBlock of its chain.
LinkedReachable(h) ==
    ({h.dataSectors[i] : i \in 0 .. NumDirect - 1}
        \cup {h.nextBlock}
        \cup UNION {{h.chain[k].nextBlock}
                        \cup {h.chain[k].dataSectors[i] :
                                  i \in 0 .. NumLinkedDataSectors - 1} :
                    k \in 1 .. Len(h.chain)})
        \ {EmptyBlock}

\* The link sectors a file of numSectors sectors needs.
LinkSectors(numSectors) ==
    IF numSectors > NumDirect
    THEN divRoundUp(numSectors - NumDirect, NumLinkedDataSectors)
    ELSE 0

\* C11: linked-block header: FileHeader::Allocate(freeMap, fileSize) that
\* returns TRUE sets numSectors = ceil(fileSize / SectorSize), lowers
\* NumClear() by numSectors plus the link sectors of the sectors beyond the
\* NumDirect inline slots, and the sectors reachable from the header are
\* exactly the bits the call set.
C11_LinkedAllocateClaimsExactly ==
    (variant = "linked" /\ last.op = "Allocate" /\ pc = "allocated")
        => /\ hdr.numSectors = divRoundUp(last.arg, SectorSize)
           /\ NumClear(mapBefore) - NumClear(freeMap)
                  = hdr.numSectors + LinkSectors(hdr.numSectors)
           /\ LinkedReachable(hdr) = freeMap \ mapBefore

\* Every slot of a linked-block header in turn: direct slots, then for the
\* header and each LinkedBlock the link and the block's data slots.
LinkedSlotList(h) ==
    LET blockSlots(b) ==
            <<b.nextBlock>> \o [i \in 1 .. NumLinkedDataSectors |->
                                   b.dataSectors[i - 1]]
        chainSlots[k \in 0 .. Len(h.chain)] ==
            IF k = 0 THEN << >>
            ELSE chainSlots[k - 1] \o blockSlots(h.chain[k])
    IN  [i \in 1 .. NumDirect |-> h.dataSectors[i - 1]]
            \o <<h.nextBlock>> \o chainSlots[Len(h.chain)]

\* No sector address is held by two slots.
NoRepeat(slots) ==
    \A i, j \in 1 .. Len(slots) :
        (i # j /\ slots[i] # EmptyBlock) => slots[i] # slots[j]

\* The headers that hold a file now.
Allocated == {f \in Files : files[f].st = "allocated"}

\* C12: linked-block header: after any sequence of Allocate calls that
\* returned TRUE and Deallocate calls by several FileHeader objects on one
\* bitmap, the sector addresses reachable from two allocated headers are
\* disjoint and no address is held twice by one header.
C12_SharedBitmapDisjoint ==
    variant = "shared"
        => /\ \A f, g \in Allocated :
                  f # g => LinkedReachable(files[f].hdr)
                               \cap LinkedReachable(files[g].hdr) = {}
           /\ \A f \in Allocated : NoRepeat(LinkedSlotList(files[f].hdr))

\* C12 witness: a header was given, chain included, sectors that another
\* header's Deallocate had freed, while a third file stays allocated.
C12_Witness ==
    /\ variant = "shared" /\ aborted = "" /\ last.op = "FileAllocate"
    /\ \E f, g, e \in Files :
           /\ files[f].st = "deallocated"
           /\ files[g].st = "allocated" /\ g = last.on
           /\ files[e].st = "allocated" /\ e # g
           /\ files[g].hdr.chain # << >>
           /\ LinkedReachable(files[f].hdr)
                  \cap LinkedReachable(files[g].hdr) # {}

\* The threads in the ready queues.
Ready == Queued(L1List, L2List, L3List)

\* What a FindNextToRun step returns and does to the queues: the front of
\* the first queue of L1, L2, L3 that holds a thread, removed from it.
TakesFirstNonEmpty ==
    /\ last'.ret = NULL <=> (L1List = << >> /\ L2List = << >> /\ L3List = << >>)
    /\ L1List # << >>
           => /\ last'.ret = Head(L1List) /\ L1List' = Tail(L1List)
              /\ UNCHANGED <<L2List, L3List>>
    /\ (L1List = << >> /\ L2List # << >>)
           => /\ last'.ret = Head(L2List) /\ L2List' = Tail(L2List)
              /\ UNCHANGED <<L1List, L3List>>
    /\ (L1List = << >> /\ L2List = << >> /\ L3List # << >>)
           => /\ last'.ret = Head(L3List) /\ L3List' = Tail(L3List)
              /\ UNCHANGED <<L1List, L2List>>
    /\ last'.ret = NULL => UNCHANGED <<L1List, L2List, L3List>>

\* C13: FindNextToRun removes and returns the front of the first of L1,
\* L2, L3 that is not empty, NULL exactly when all three are empty; a
\* thread of priority 60 is not returned while a thread of priority 100 is
\* ready.
C13_FindNextToRunOrder ==
    [][(variant = "scheduler" /\ last'.op = "FindNextToRun")
           => /\ TakesFirstNonEmpty
              /\ \A u \in Ready :
                     thr[u].priority = 100
                         => (last'.ret # NULL /\ thr[last'.ret].priority # 60)]_vars

\* C13 witness: the thread of priority 100 was filed after the thread of
\* priority 60 and has been returned while that one waits.
C13_Witness ==
    /\ variant = "scheduler" /\ last.op = "FindNextToRun"
    /\ last.ret # NULL /\ thr[last.ret].priority = 100
    /\ \E v \in Ready : thr[v].priority = 60 /\ v < last.ret

\* list without the thread t.
Without(list, t) == SelectSeq(list, LAMBDA x : x # t)

\* C14: ReadyToRun(thread) sets the thread's status to READY and inserts it
\* into one queue, L1 if its priority is above 99, L2 if it is 50..99, L3
\* if it is 49 or less; the other two queues stay as they are.
C14_ReadyToRunBand ==
    [][(variant = "scheduler" /\ last'.op = "ReadyToRun")
           => LET t == last'.arg
                  p == thr[t].priority
              IN  /\ thr' = [thr EXCEPT ![t].status = "READY"]
                  /\ p > 99
                         => /\ t \in Queued(L1List', << >>, << >>)
                            /\ Without(L1List', t) = L1List
                            /\ UNCHANGED <<L2List, L3List>>
                  /\ (50 <= p /\ p <= 99)
                         => /\ t \in Queued(<< >>, L2List', << >>)
                            /\ Without(L2List', t) = L2List
                            /\ UNCHANGED <<L1List, L3List>>
                  /\ p <= 49
                         => /\ t \in Queued(<< >>, << >>, L3List')
                            /\ Without(L3List', t) = L3List
                            /\ UNCHANGED <<L1List, L2List>>]_vars

\* C14 witness: a thread of priority 50 was filed into an L2 that held a
\* thread, beside a thread in L3.
C14_Witness ==
    /\ variant = "scheduler" /\ last.op = "ReadyToRun"
    /\ thr[last.arg].priority = 50 /\ thr[last.arg].status = "READY"
    /\ last.arg \in Queued(<< >>, L2List, << >>)
    /\ Len(L2List) >= 2 /\ L3List # << >>

\* The threads of a list.
Members(list) == {list[i] : i \in 1 .. Len(list)}

\* C15: band 3 is first in, first out: ReadyToRun puts a thread of priority
\* 49 or less at the end of L3, FindNextToRun with L1 and L2 empty returns
\* the front of L3, and ageUpdate keeps the threads it leaves in L3 in the
\* order they had.
C15_Band3Fifo ==
    [][variant = "scheduler"
           => /\ (last'.op = "ReadyToRun" /\ thr[last'.arg].priority <= 49)
                     => L3List' = Append(L3List, last'.arg)
              /\ (last'.op = "FindNextToRun" /\ L1List = << >>
                                            /\ L2List = << >>
                                            /\ L3List # << >>)
                     => (last'.ret = Head(L3List) /\ L3List' = Tail(L3List))
              /\ last'.op = "ageUpdate"
                     => /\ Members(L3List') \subseteq Members(L3List)
                        /\ L3List' = SelectSeq(L3List,
                               LAMBDA x : x \in Members(L3List'))]_vars

\* C15 witness: of three threads waiting in L3 the front one was returned.
C15_Witness ==
    /\ variant = "scheduler" /\ last.op = "FindNextToRun"
    /\ last.ret # NULL /\ schedulerType = "RR"
    /\ Len(L3List) = 2
    /\ L3List[1] > L3List[2]

\* The place of thread x in a list that holds it.
Pos(list, x) == CHOOSE i \in 1 .. Len(list) : list[i] = x

\* The keys of a list never fall from front to end.
Ascending(list, key) ==
    \A i, j \in 1 .. Len(list) : i < j => key[list[i]] <= key[list[j]]

\* The new thread t stands behind every thread of a key not above its own
\* and before every thread of a greater key.
FiledBehindEquals(list, t, key) ==
    \A x \in Members(list) \ {t} :
        Pos(list, x) < Pos(list, t) <=> key[x] <= key[t]

\* Threads of equal key stand in list as they stood in old.
TiesAsIn(list, old, key) ==
    \A x, y \in Members(list) :
        (key[x] = key[y] /\ Pos(old, x) < Pos(old, y))
            => Pos(list, x) < Pos(list, y)

\* C16: L1 is ordered by burst time, shortest first, and L2 by priority,
\* highest first, after every ReadyToRun, FindNextToRun and ageUpdate;
\* threads of equal key stand in the order of their insertion: ReadyToRun
\* files a thread behind its equals, and ageUpdate, which inserts the
\* threads of L1, L2, L3 in that order and front first, leaves equals in
\* that order.
C16_QueuesOrdered ==
    [][variant = "scheduler"
           => LET burst == [x \in Threads |-> thr'[x].burstTime]
                  low == [x \in Threads |-> 0 - thr'[x].priority]
                  old == L1List \o L2List \o L3List
              IN  /\ Ascending(L1List', burst)
                  /\ Ascending(L2List', low)
                  /\ (last'.op = "ReadyToRun" /\ last'.arg \in Members(L1List'))
                         => FiledBehindEquals(L1List', last'.arg, burst)
                  /\ (last'.op = "ReadyToRun" /\ last'.arg \in Members(L2List'))
                         => FiledBehindEquals(L2List', last'.arg, low)
                  /\ last'.op = "ageUpdate"
                         => /\ TiesAsIn(L1List', old, burst)
                            /\ TiesAsIn(L2List', old, low)]_vars

\* C16 witness: after ageUpdate L2 holds two threads, the higher priority
\* in front of the lower, the thread created later in front.
C16_Witness ==
    /\ variant = "scheduler" /\ last.op = "ageUpdate"
    /\ Len(L2List) = 2 /\ Len(L1List) = 1
    /\ thr[L2List[1]].priority > thr[L2List[2]].priority
    /\ L2List[1] > L2List[2]

\* C17: isPreemptive() is TRUE whenever the latest FindNextToRun took its
\* thread from L1 or from L3 (schedulerType is SJF or RR), whatever the
\* queues hold now.
C17_PreemptiveUnlessBand2 ==
    (variant = "scheduler" /\ last.op = "isPreemptive"
                           /\ schedulerType \in {"SJF", "RR"})
        => last.ok = TRUE

\* Every queued thread is in the queue of its priority.
InBands(th, L1, L2, L3) ==
    /\ \A t \in Members(L1) : th[t].priority > 99
    /\ \A t \in Members(L2) : th[t].priority >= 50 /\ th[t].priority <= 99
    /\ \A t \in Members(L3) : th[t].priority <= 49

\* C18: ageUpdate raises by 10 the priority of the queued threads whose
\* increaseAge() returned TRUE and of no other thread, and leaves every
\* queued thread in the queue of its priority; with priorities changed by
\* ageUpdate only, in every state a thread in L1 has a priority above 99,
\* one in L2 a priority of 50..99, one in L3 a priority of 49 or less.
C18_AgeUpdateBands ==
    [][variant = "scheduler"
           => /\ InBands(thr', L1List', L2List', L3List')
              /\ last'.op = "ageUpdate"
                     => \A t \in Threads :
                            thr'[t] = IF t \in last'.aged
                                      THEN [thr[t] EXCEPT
                                                !.priority = @ + 10]
                                      ELSE thr[t]]_vars

\* C18 witness: one ageUpdate took a thread from L3 to L2 and one from L2
\* to L1 and left a third, not aged, where it was.
C18_Witness ==
    /\ variant = "scheduler" /\ last.op = "ageUpdate"
    /\ \E t \in last.aged \cap Members(L1List) : thr[t].priority - 10 <= 99
    /\ \E t \in last.aged \cap Members(L2List) : thr[t].priority - 10 <= 49
    /\ Ready \ last.aged # {}

\* C19: with ageUpdate called again and again and increaseAge() of a
\* waiting thread TRUE again and again, no thread stays in L3 and none
\* stays in L2 for ever: a thread leaves L3 only for L2 and L2 only for
\* L1, unless FindNextToRun returns it, and a thread in L1 stays in L1
\* until FindNextToRun returns it.
C19_AgingPromotes ==
    /\ \A t \in Threads : /\ []<>(t \notin Members(L3List))
                          /\ []<>(t \notin Members(L2List))
    /\ [][\A t \in Threads :
              /\ (t \in Members(L3List) /\ t \notin Members(L3List'))
                     => (t \in Members(L2List') \/ t \in handed')
              /\ (t \in Members(L2List) /\ t \notin Members(L2List'))
                     => (t \in Members(L1List') \/ t \in handed')
              /\ t \in Members(L1List)
                     => (t \in Members(L1List') \/ t \in handed')]_vars

\* C19 witness: no thread has been returned by FindNextToRun, and the
\* latest ageUpdate has brought a thread that waited in L3 into L2 while
\* another thread was already in L1.
C19_Witness ==
    /\ variant = "scheduler" /\ last.op = "ageUpdate" /\ handed = {}
    /\ L1List # << >>
    /\ \E t \in last.aged \cap Members(L2List) : thr[t].priority - 10 <= 49

\* How many times thread t occurs in L1, L2 and L3 together.
Occurrences(t) ==
    Cardinality({i \in 1 .. Len(L1List) : L1List[i] = t})
        + Cardinality({i \in 1 .. Len(L2List) : L2List[i] = t})
        + Cardinality({i \in 1 .. Len(L3List) : L3List[i] = t})

\* C20: after any sequence of ReadyToRun (for threads not queued),
\* FindNextToRun and ageUpdate, every thread made READY and not yet returned
\* by FindNextToRun occurs exactly once in L1, L2 and L3 together, and a
\* thread FindNextToRun has returned, like one never made READY, occurs in
\* none of them.
C20_OneQueueOnce ==
    variant = "scheduler" =>
        \A t \in Threads :
            Occurrences(t) = IF thr[t].status = "READY" /\ t \notin handed
                             THEN 1 ELSE 0

\* C20 witness: FindNextToRun has returned a thread, and the latest
\* ageUpdate has aged a thread and left threads in two queues.
C20_Witness ==
    /\ variant = "scheduler" /\ last.op = "ageUpdate" /\ last.aged # {}
    /\ handed # {}
    /\ Cardinality({q \in {L1List, L2List, L3List} : q # << >>}) = 2

\* C21: Run(nextThread, TRUE) records the running thread in toBeDestroyed
\* and deletes no thread; a thread is deleted by CheckToBeDestroyed alone,
\* which deletes the thread toBeDestroyed names when that thread is no
\* longer currentThread, and leaves toBeDestroyed NULL; the running thread
\* is never a deleted one.
C21_DeferredDestruction ==
    [][variant = "kernel" =>
           /\ (last'.op = "Run" /\ aborted' = "")
                  => /\ destroyed' = destroyed
                     /\ last'.ok => /\ toBeDestroyed' = currentThread
                                    /\ currentThread' # currentThread
           /\ destroyed' # destroyed
                  => /\ last'.op = "CheckToBeDestroyed"
                     /\ toBeDestroyed # NULL
                     /\ toBeDestroyed # currentThread
                     /\ destroyed' = destroyed \cup {toBeDestroyed}
           /\ last'.op = "CheckToBeDestroyed" => toBeDestroyed' = NULL
           /\ currentThread' \notin destroyed']_vars

\* C21 witness: CheckToBeDestroyed has just deleted the thread that
\* Run(nextThread, TRUE) recorded, while another thread is running and a
\* third waits in a queue.
C21_Witness ==
    /\ variant = "kernel" /\ last.op = "CheckToBeDestroyed"
    /\ last.arg \in destroyed
    /\ toBeDestroyed = NULL
    /\ currentThread \notin destroyed
    /\ Queued(L1List, L2List, L3List) # {}

\* A thread made READY that FindNextToRun has not returned since.
Waiting(t) == thr[t].status = "READY" /\ t \notin handed

\* C22: ReadyToRun, FindNextToRun, ageUpdate and Run execute only with
\* interrupts disabled, so that wherever an interrupt can come (the level
\* is IntOn) no ageUpdate stands between two of its statements and every
\* waiting thread is in one of L1List, L2List, L3List.
C22_AtomicRegions ==
    (variant = "kernel" /\ aborted = "" /\ intLevel = "IntOn")
        => /\ ~aging.on
           /\ \A t \in Threads :
                  Waiting(t) => t \in Queued(L1List, L2List, L3List)

\* C23: on a DoublyIndirectBlock or TripleIndirectBlock that Allocate(n) has
\* filled, ByteToSector(o) with 0 <= o < n * SectorSize returns, and what
\* it returns is a sector that this Allocate claimed.
C23_TreeByteToSector ==
    (/\ variant \in {"doubly", "triple"}
     /\ last.op = "ByteToSector"
     /\ last.arg < alloc.ret * SectorSize)
        => /\ aborted = ""
           /\ last.ret \in freeMap \ mapBefore

\* C24: ByteToSector of a Single, Doubly or TripleIndirectBlock reads no
\* slot outside dataSectors[0 .. MAX_BLOCKS-1], and when it returns, what
\* it returns is a sector of the disk, never the sentinel.
C24_TreeRangeCheck ==
    (variant \in Blocks /\ last.op = "ByteToSector")
        => /\ last.inRange
           /\ aborted = "" => last.ret \in Sectors

\* C29: a ByteToSector call that reads inside its arrays, on whichever
\* header or block, leaves the bitmap, every disk sector and the headers
\* and blocks as they were.
C29_ByteToSectorReadOnly ==
    [][(last'.op = "ByteToSector" /\ last'.inRange)
           => UNCHANGED <<freeMap, disk, hdr, hdr2, thdr, thdr2, blk, blk2>>]_vars

\* C25: Deallocate of a Single, Doubly or TripleIndirectBlock and of the
\* linked FileHeader hands Clear nothing but sectors of the disk, the
\* sentinel never, and no sector twice, whatever the size that was
\* allocated.
C25_ClearOnlyUsedSectors ==
    (variant \in {"linked"} \cup Blocks /\ last.op = "Deallocate")
        => /\ \A n \in 1 .. Len(last.calls) : last.calls[n] \in Sectors
           /\ NoRepeat(last.calls)

\* The slots of the block that WriteBack stored in a sector, as ReadSector
\* into a new block of the same class gives them back: the words behind
\* the vtable pointer, and the sentinel for a slot the sector has no word
\* for.
StoredBlock(dsk, sector) ==
    [i \in Slots |-> IF i + PtrWords \in Words
                     THEN dsk[sector][i + PtrWords]
                     ELSE EMPTY_BLOCK]

\* The leaf sector on record for virtual block v of a SingleIndirectBlock
\* (level 1) or a DoublyIndirectBlock (level 2) whose children are on the
\* disk; the sentinel where there is none.
LeafOf(level, ds, dsk, v) ==
    IF level = 1
    THEN ds[v]
    ELSE LET child == ds[v \div MAX_BLOCKS]
         IN  IF child \in Sectors
             THEN StoredBlock(dsk, child)[v % MAX_BLOCKS]
             ELSE EMPTY_BLOCK

\* The slots of the block itself that were empty before and are not now.
NewSlots(before, after) ==
    {i \in Slots : before[i] = EMPTY_BLOCK /\ after[i] # EMPTY_BLOCK}

\* C26: a second Allocate(m) on a SingleIndirectBlock or DoublyIndirectBlock
\* that holds leaves and has been written back keeps every leaf on record
\* at its virtual block, with the sector's contents, and takes from the
\* bitmap exactly the new leaves it reports plus the new index sectors.
C26_GrowthKeepsLeaves ==
    [][(/\ variant \in {"single", "doubly"}
        /\ last'.op = "AllocateAgain"
        /\ aborted' = "" /\ last'.ret >= 0)
           => /\ \A v \in 0 .. Capacity(Level) - 1 :
                     LET leaf == LeafOf(Level, blk, disk, v)
                     IN  leaf # EMPTY_BLOCK
                             => /\ LeafOf(Level, blk', disk', v) = leaf
                                /\ leaf \in Sectors => disk'[leaf] = disk[leaf]
              /\ NumClear(freeMap) - NumClear(freeMap')
                     = last'.ret + (IF Level = 1 THEN 0
                                    ELSE Cardinality(NewSlots(blk, blk')))]_vars

\* C27: a FileHeader::Allocate that returns FALSE, in the linked and in the
\* table header, leaves numBytes, numSectors and every sector slot of the
\* header as they were before the call.
C27_FailedAllocateNoMutation ==
    [][(/\ variant \in Headers
        /\ last'.op = "Allocate" /\ ~last'.ok
        /\ aborted' = "")
           => /\ hdr' = hdr
              /\ thdr' = thdr]_vars

\* The sector the header holds for virtual block v of the file; the
\* sentinel where the header has no entry for it.
SectorOfBlock(v) ==
    IF variant = "linked"
    THEN LET r == LinkedByteToSector(hdr, v * SectorSize)
         IN  IF r.abort = "" THEN r.ret ELSE EmptyBlock
    ELSE LET r == TableByteToSector(thdr, v * SectorSize)
         IN  IF r.inRange THEN r.ret ELSE EmptyBlock

\* C28: when FileHeader::Allocate has returned TRUE, in the linked and in
\* the table header, every virtual block 0 .. numSectors-1 of the file has
\* a sector that this call took from the bitmap, and no two blocks have the
\* same one.
C28_TrueOnlyIfAccommodated ==
    (/\ variant \in Headers
     /\ last.op = "Allocate" /\ last.ok
     /\ aborted = "")
        => LET n == divRoundUp(last.arg, SectorSize)
           IN  /\ \A v \in 0 .. n - 1 :
                      SectorOfBlock(v) \in freeMap \ mapBefore
               /\ \A v, w \in 0 .. n - 1 :
                      v # w => SectorOfBlock(v) # SectorOfBlock(w)

\* The non-sentinel entries of the SingleIndirectBlock come first in its
\* slot array.
IsPrefix(ds) ==
    \A i, j \in Slots : (i < j /\ ds[j] # EMPTY_BLOCK) => ds[i] # EMPTY_BLOCK

\* C30: after any Allocate and Deallocate, the state right after Deallocate
\* included, every non-sentinel entry of the SingleIndirectBlock in memory,
\* and of the linked FileHeader and its LinkedBlocks in memory, is a sector
\* the bitmap marks used, and the entries of the SingleIndirectBlock form a
\* prefix of its slots.
C30_SlotValidity ==
    (aborted = "" /\ pc \in {"fresh", "failed", "allocated", "deallocated"})
        => /\ variant = "single"
                  => /\ \A i \in Slots :
                            blk[i] # EMPTY_BLOCK => Test(freeMap, blk[i])
                     /\ IsPrefix(blk)
           /\ variant = "linked"
                  => \A s \in LinkedReachable(hdr) : Test(freeMap, s)

\* C31: with every thread calling CheckToBeDestroyed where it starts or
\* resumes after a switch, toBeDestroyed is NULL wherever Run can be
\* entered, so Run(nextThread, TRUE) passes ASSERT(toBeDestroyed == NULL)
\* for every nextThread; and a thread recorded in toBeDestroyed leaves it
\* only by being deleted.
C31_OnePendingDestruction ==
    /\ [](variant = "kernel" /\ Idle
              => /\ toBeDestroyed = NULL
                 /\ \A t \in Threads :
                        RunSwitch(currentThread, toBeDestroyed, destroyed,
                                  t, TRUE).abort = "")
    /\ [][(variant = "kernel" /\ toBeDestroyed # NULL
               /\ toBeDestroyed' # toBeDestroyed)
              => /\ toBeDestroyed' = NULL
                 /\ toBeDestroyed \in destroyed']_vars

\* C31 witness: Run(nextThread, TRUE) has been entered a second time, after
\* the thread of the first was deleted, and has recorded the second
\* finishing thread.
C31_Witness ==
    /\ variant = "kernel" /\ aborted = ""
    /\ last.op = "Run" /\ last.ok
    /\ destroyed # {}
    /\ toBeDestroyed \in Threads \ destroyed
    /\ currentThread = last.arg

\* The threads whose status is RUNNING.
Running == {t \in Threads : thr[t].status = "RUNNING"}

\* C32: when Run(nextThread, finishing) has done its bookkeeping and
\* switched, kernel->currentThread is nextThread and nextThread is the one
\* thread whose status is RUNNING: Run has marked the outgoing thread.
C32_RunBookkeeping ==
    (variant = "kernel" /\ last.op = "Run" /\ aborted = "")
        => /\ currentThread = last.arg
           /\ Running = {last.arg}

\* C33: Allocate(numSectors) on a new DoublyIndirectBlock or
\* TripleIndirectBlock with numSectors >= 0 and NumClear() >= numSectors,
\* NumClear() = numSectors included, runs to its return: no FindAndSet for
\* a child gives the sentinel and no child's Allocate returns less than 0.
C33_NoAssertionPastCheck ==
    (/\ variant \in {"doubly", "triple"}
     /\ last.op = "Allocate"
     /\ last.arg >= 0 /\ NumClear(mapBefore) >= last.arg)
        => /\ aborted = ""
           /\ last.ret >= 0

\* How many times thread t occurs in the list.
CountIn(list, t) == Cardinality({i \in 1 .. Len(list) : list[i] = t})

\* The band thread t waits in, given the three queues: 1, 2 or 3, and 0
\* for a thread in none of them.
BandIn(L1, L2, L3, t) ==
    IF CountIn(L1, t) > 0 THEN 1
    ELSE IF CountIn(L2, t) > 0 THEN 2
    ELSE IF CountIn(L3, t) > 0 THEN 3
    ELSE 0

\* C34: every step of ageUpdate, and so the call from its first statement
\* to its last, keeps each thread as many times in the queues, old and new
\* lists taken together, as it was, moves no thread to a lower band, and
\* leaves schedulerType and toBeDestroyed as they were.
C34_AgeUpdateConserves ==
    [][(variant \in SchedulerVariants /\ last'.op = "ageUpdate")
           => /\ \A t \in Threads :
                     /\ CountIn(L1List' \o aging'.L1, t)
                            + CountIn(L2List' \o aging'.L2, t)
                            + CountIn(L3List' \o aging'.L3, t)
                          = CountIn(L1List \o aging.L1, t)
                                + CountIn(L2List \o aging.L2, t)
                                + CountIn(L3List \o aging.L3, t)
                     /\ BandIn(L1List' \o aging'.L1, L2List' \o aging'.L2,
                               L3List' \o aging'.L3, t)
                            <= BandIn(L1List \o aging.L1, L2List \o aging.L2,
                                      L3List \o aging.L3, t)
              /\ schedulerType' = schedulerType
              /\ toBeDestroyed' = toBeDestroyed]_vars

\* C34 witness: a whole ageUpdate has just left three threads in the
\* queues, one of them aged into L1 from L2 and one left in L3.
C34_Witness ==
    /\ variant \in SchedulerVariants /\ last.op = "ageUpdate" /\ ~aging.on
    /\ Cardinality(Queued(L1List, L2List, L3List)) = 3
    /\ \E t \in last.aged :
           CountIn(L1List, t) = 1 /\ thr[t].priority - AgeBoost <= 99
    /\ L3List # << >>

=============================================================================
